---- MODULE Spec2Model ----
(***************************************************************************)
(* Model of secure-commit: the secret scanner (lib/detector.js with the    *)
(* catalog of lib/patterns.js), the CLI commands scan, clean, init,        *)
(* install and uninstall (bin/cli.js), the pre-commit hook                 *)
(* (templates/pre-commit), its installation (lib/hooks.js), the removal of *)
(* tracked sensitive files (lib/cleaner.js) and the .gitignore update,     *)
(* preview and validation (lib/gitignore.js).                              *)
(*                                                                         *)
(* Text is a sequence of one-character strings, so that regular            *)
(* expressions, split, substring and concatenation are computed character  *)
(* by character as the code computes them.  Where a computed value is used *)
(* several times it is bound once, as the element of a singleton set.      *)
(***************************************************************************)
EXTENDS Integers, Sequences, FiniteSets, TLC

VARIABLES
    fsys,           \* working tree: path -> node (file with content, directory, nothing)
    index,          \* git index: path -> staged content, or Absent
    head,           \* last commit: path -> committed content, or Absent
    requireDefined, \* whether the runtime defines `require` in detector.js
    findings,       \* result of the last scanFileForSecrets / scanDirectory call
    stdout,         \* lines written with console.log by the last command
    warnings,       \* lines written with console.warn / console.error by the last command
    exitStatus,     \* exit status of the last CLI command ("none" before any)
    staged_files,   \* $staged_files of the last run of the hook
    hookFindings,   \* <<file, kind>> hits reported by the last run of the hook
    hookExit,       \* exit status of the last run of the hook ("none" before any)
    pc,             \* position of the modelled session
    lastIndex,      \* lastIndex of the pattern object of each catalog entry
    scans,          \* number of scans since the tree was last written
    prevFindings,   \* result of the scan before the last one
    scanRoot,       \* dirPath of the last scanDirectory call
    fsTrace,        \* effects of that call: fs calls, findings pushed, warnings
    scanOutcome,    \* how that call ended: "returned", "threw" ("none" before any)
    gitDir,         \* whether .git exists
    hooksDir,       \* whether .git/hooks exists
    preCommit,      \* .git/hooks/pre-commit: its content and mode, or NoHook
    hooksResult,    \* what the last installHooks / uninstallHooks call returned or threw
    dotGitignore,   \* .gitignore: its content, or NoGitignore
    lastCall,       \* the last operation or CLI command of the session
    cleanResult,    \* what the last removeTrackedSensitiveFiles call returned or threw
    cleanCall,      \* the options of that call, and how its git processes ended
    gitignoreTmp,   \* .gitignore.tmp: its content, or NoGitignore
    ignoreResult    \* the last updateGitignore / previewGitignoreChanges /
                    \* validateGitignore call: its arguments and what it returned or threw

patternVars == <<lastIndex, scans, prevFindings>>
walkVars == <<scanRoot, fsTrace, scanOutcome>>
cleanVars == <<cleanResult, cleanCall>>
ignoreVars == <<gitignoreTmp, ignoreResult>>
hooksVars == <<gitDir, hooksDir, preCommit, hooksResult, dotGitignore>>

vars == <<fsys, index, head, requireDefined, findings, stdout, warnings,
          exitStatus, staged_files, hookFindings, hookExit, pc,
          patternVars, walkVars, hooksVars, lastCall, cleanVars, ignoreVars>>

(***************************************************************************)
(* Characters and character classes used by the patterns.                  *)
(***************************************************************************)
LowerSeq == <<"a","b","c","d","e","f","g","h","i","j","k","l","m","n","o","p","q","r","s","t","u","v","w","x","y","z">>
UpperSeq == <<"A","B","C","D","E","F","G","H","I","J","K","L","M","N","O","P","Q","R","S","T","U","V","W","X","Y","Z">>
Lower == {LowerSeq[i] : i \in 1..Len(LowerSeq)}
Upper == {UpperSeq[i] : i \in 1..Len(UpperSeq)}
Digit == {"0","1","2","3","4","5","6","7","8","9"}
\* [a-zA-Z0-9]
Alnum == Lower \cup Upper \cup Digit
\* [0-9A-Z]
UpperDigit == Digit \cup Upper
\* ['"]
Quote == {"'", "\""}
\* \s restricted to the characters of the model's alphabet
Whitespace == {" ", "\t", "\n", "\r", "\f"}
\* the characters `.` does not match
LineTerminator == {"\n", "\r"}
\* [0-9A-Za-z\\-_] of the JavaScript pattern: `\\` is a literal backslash and
\* `\\-_` is the range from backslash (0x5C) to underscore (0x5F)
GoogleClassJs == Alnum \cup {"\\", "]", "^", "_"}
\* [0-9A-Za-z_-] of the hook's grep pattern
GoogleClassGrep == Alnum \cup {"_", "-"}

\* String.prototype.toLowerCase on one character (case-insensitive flag)
ToLower(c) ==
    IF c \in Upper THEN LowerSeq[CHOOSE i \in 1..Len(UpperSeq) : UpperSeq[i] = c] ELSE c

(***************************************************************************)
(* String helpers.                                                         *)
(***************************************************************************)
\* s starts with p at index i
StartsWithAt(s, p, i) ==
    /\ i >= 1
    /\ i + Len(p) - 1 <= Len(s)
    /\ \A k \in 1..Len(p) : s[i + k - 1] = p[k]

\* the same, ignoring case (p is lower case)
StartsWithAtIgnoreCase(s, p, i) ==
    /\ i >= 1
    /\ i + Len(p) - 1 <= Len(s)
    /\ \A k \in 1..Len(p) : ToLower(s[i + k - 1]) = p[k]

\* String.prototype.startsWith
StartsWith(s, p) == StartsWithAt(s, p, 1)

\* String.prototype.endsWith
EndsWith(s, p) == StartsWithAt(s, p, Len(s) - Len(p) + 1)

\* String.prototype.includes
Includes(s, p) == \E i \in 1..(Len(s) - Len(p) + 1) : StartsWithAt(s, p, i)

\* String.prototype.substring(0, n)
Substring0(s, n) == SubSeq(s, 1, IF n < Len(s) THEN n ELSE Len(s))

\* last index of the longest run of characters of class cls starting at p
\* (p - 1 when the run is empty): a greedy cls* from p
RunEnd(s, p, cls) ==
    CHOOSE e \in (p - 1)..Len(s) :
        /\ \A k \in p..e : s[k] \in cls
        /\ (e = Len(s) \/ s[e + 1] \notin cls)

\* index of the first "\n" of s, 0 when there is none
FirstNewline(s) ==
    IF \E i \in 1..Len(s) : s[i] = "\n"
    THEN CHOOSE i \in 1..Len(s) : s[i] = "\n" /\ \A k \in 1..(i - 1) : s[k] # "\n"
    ELSE 0

RECURSIVE SplitNewline(_)
\* content.split('\n')
SplitNewline(s) ==
    LET i == FirstNewline(s) IN
    IF i = 0 THEN <<s>>
    ELSE <<SubSeq(s, 1, i - 1)>> \o SplitNewline(SubSeq(s, i + 1, Len(s)))

RECURSIVE ToDecimal(_)
\* the decimal digits of a natural number, as template literals print it
ToDecimal(n) ==
    LET d == <<"0","1","2","3","4","5","6","7","8","9">>[(n % 10) + 1] IN
    IF n < 10 THEN <<d>> ELSE ToDecimal(n \div 10) \o <<d>>

(***************************************************************************)
(* lib/patterns.js: secretPatterns.                                        *)
(***************************************************************************)
PrefixStripeLive == <<"s","k","_","l","i","v","e","_">>
PrefixStripeTest == <<"s","k","_","t","e","s","t","_">>
PrefixOpenai == <<"s","k","-">>
PrefixAws == <<"A","K","I","A">>
PrefixGithub == <<"g","h","p","_">>
PrefixGoogle == <<"A","I","z","a">>
SchemeSep == <<":","/","/">>
DbSchemes == <<<<"m","o","n","g","o","d","b">>, <<"p","o","s","t","g","r","e","s">>, <<"m","y","s","q","l">>>>
WordJwt == <<"j","w","t">>
WordSecret == <<"s","e","c","r","e","t">>

StripeBodyLen == 24
OpenaiBodyLen == 48
AwsBodyLen == 16
GithubBodyLen == 36
GoogleBodyLen == 35
JwtValueMinLen == 32

\* /PREFIX[cls]{n}/ anchored at index i: index of the last matched character, 0
\* when the pattern does not match at i
FixedMatchEnd(line, i, prefix, cls, n) ==
    LET e == i + Len(prefix) + n - 1 IN
    IF /\ e <= Len(line)
       /\ StartsWithAt(line, prefix, i)
       /\ \A k \in (i + Len(prefix))..e : line[k] \in cls
    THEN e ELSE 0

\* DbBodyChar with a class that excludes blanks, tabs and newlines but not the
\* carriage return
DbBodyChar_KeepsCR(c) == c \notin Quote /\ c \notin {" ", "\t", "\n"}

\* [^'"\s]
DbBodyChar(c) == c \notin Quote /\ c \notin Whitespace

\* /(mongodb|postgres|mysql):\/\/[^'"\s]+/ anchored at index i
DbMatchEnd(line, i) ==
    LET heads == {DbSchemes[k] \o SchemeSep : k \in 1..Len(DbSchemes)}
        hit == {h \in heads : StartsWithAt(line, h, i)}
    IN  IF hit = {} THEN 0
        ELSE LET h == CHOOSE x \in hit : TRUE
                 p == i + Len(h)
                 body == {c \in {line[k] : k \in 1..Len(line)} : DbBodyChar(c)}
                 e == RunEnd(line, p, body)
             IN  IF e >= p THEN e ELSE 0

\* the part of the jwt_secret pattern after the quoted name:
\* ['"]\s*[=:]\s*['"][^'"]{32,}['"] with the first quote at index q; index of
\* the last matched character, 0 when it does not match
JwtTailEnd(line, q) ==
    LET n == Len(line)
        a == RunEnd(line, q + 1, Whitespace) + 1
        b == RunEnd(line, a + 1, Whitespace) + 1
        nonQuote == {line[k] : k \in 1..n} \ Quote
        r == RunEnd(line, b + 1, nonQuote)
    IN  IF /\ q <= n /\ line[q] \in Quote
           /\ a <= n /\ line[a] \in {"=", ":"}
           /\ b <= n /\ line[b] \in Quote
           /\ r - b >= JwtValueMinLen
           /\ r + 1 <= n /\ line[r + 1] \in Quote
        THEN r + 1 ELSE 0

\* lexicographic order on triples, the order in which the backtracking
\* matcher tries the three greedy `.*` of one alternative (longest first)
LexGeq(t, u) ==
    \/ t[1] > u[1]
    \/ t[1] = u[1] /\ t[2] > u[2]
    \/ t[1] = u[1] /\ t[2] = u[2] /\ t[3] >= u[3]

\* /['"](.*jwt.*secret.*|.*secret.*jwt.*)['"]\s*[=:]\s*['"][^'"]{32,}['"]/i
\* anchored at index i
JwtMatchEnd(line, i) ==
    LET n == Len(line)
        J == {j \in (i + 1)..n : StartsWithAtIgnoreCase(line, WordJwt, j)}
        S == {j \in (i + 1)..n : StartsWithAtIgnoreCase(line, WordSecret, j)}
        Q == {q \in (i + 1)..n :
                /\ line[q] \in Quote
                /\ \A k \in (i + 1)..(q - 1) : line[k] \notin LineTerminator
                /\ JwtTailEnd(line, q) # 0}
        \* .*jwt.*secret.* : <<start of jwt, start of secret, closing quote>>
        alt1 == {t \in J \X S \X Q :
                    t[1] + Len(WordJwt) <= t[2] /\ t[2] + Len(WordSecret) <= t[3]}
        \* .*secret.*jwt.* : <<start of secret, start of jwt, closing quote>>
        alt2 == {t \in S \X J \X Q :
                    t[1] + Len(WordSecret) <= t[2] /\ t[2] + Len(WordJwt) <= t[3]}
        first(T) == CHOOSE t \in T : \A u \in T : LexGeq(t, u)
    IN  IF i > n \/ line[i] \notin Quote THEN 0
        ELSE IF alt1 # {} THEN JwtTailEnd(line, first(alt1)[3])
        ELSE IF alt2 # {} THEN JwtTailEnd(line, first(alt2)[3])
        ELSE 0

\* Object.entries(secretPatterns): the catalog in insertion order
secretPatterns == <<
    [type |-> "stripe_live",
     description |-> <<"S","t","r","i","p","e"," ","l","i","v","e"," ","A","P","I"," ","k","e","y">>,
     suggestion |-> <<"M","o","v","e"," ","t","o"," ",".","e","n","v"," ","f","i","l","e"," ","-"," ","t","h","i","s"," ","e","x","p","o","s","e","s"," ","r","e","a","l"," ","p","a","y","m","e","n","t"," ","p","r","o","c","e","s","s","i","n","g","!">>],
    [type |-> "stripe_test",
     description |-> <<"S","t","r","i","p","e"," ","t","e","s","t"," ","A","P","I"," ","k","e","y">>,
     suggestion |-> <<"M","o","v","e"," ","t","o"," ",".","e","n","v"," ","f","i","l","e"," ","f","o","r"," ","c","o","n","s","i","s","t","e","n","c","y">>],
    [type |-> "openai",
     description |-> <<"O","p","e","n","A","I"," ","A","P","I"," ","k","e","y">>,
     suggestion |-> <<"M","o","v","e"," ","t","o"," ",".","e","n","v"," ","f","i","l","e"," ","-"," ","t","h","i","s"," ","c","o","s","t","s"," ","m","o","n","e","y"," ","p","e","r"," ","r","e","q","u","e","s","t","!">>],
    [type |-> "aws_access",
     description |-> <<"A","W","S"," ","A","c","c","e","s","s"," ","K","e","y">>,
     suggestion |-> <<"M","o","v","e"," ","t","o"," ",".","e","n","v"," ","f","i","l","e"," ","-"," ","t","h","i","s"," ","c","a","n"," ","a","c","c","e","s","s"," ","y","o","u","r"," ","e","n","t","i","r","e"," ","A","W","S"," ","a","c","c","o","u","n","t","!">>],
    [type |-> "github_token",
     description |-> <<"G","i","t","H","u","b"," ","P","e","r","s","o","n","a","l"," ","A","c","c","e","s","s"," ","T","o","k","e","n">>,
     suggestion |-> <<"M","o","v","e"," ","t","o"," ",".","e","n","v"," ","f","i","l","e"," ","-"," ","t","h","i","s"," ","c","a","n"," ","a","c","c","e","s","s"," ","y","o","u","r"," ","r","e","p","o","s","!">>],
    [type |-> "google_api",
     description |-> <<"G","o","o","g","l","e"," ","A","P","I"," ","K","e","y">>,
     suggestion |-> <<"M","o","v","e"," ","t","o"," ",".","e","n","v"," ","f","i","l","e">>],
    [type |-> "jwt_secret",
     description |-> <<"J","W","T"," ","S","e","c","r","e","t">>,
     suggestion |-> <<"M","o","v","e"," ","t","o"," ",".","e","n","v"," ","f","i","l","e"," ","-"," ","t","h","i","s"," ","c","o","m","p","r","o","m","i","s","e","s"," ","a","l","l"," ","y","o","u","r"," ","u","s","e","r"," ","s","e","s","s","i","o","n","s","!">>],
    [type |-> "database_url",
     description |-> <<"D","a","t","a","b","a","s","e"," ","c","o","n","n","e","c","t","i","o","n"," ","s","t","r","i","n","g">>,
     suggestion |-> <<"M","o","v","e"," ","t","o"," ",".","e","n","v"," ","f","i","l","e"," ","-"," ","t","h","i","s"," ","e","x","p","o","s","e","s"," ","y","o","u","r"," ","d","a","t","a","b","a","s","e","!">>] >>

SecretTypes == {secretPatterns[k].type : k \in 1..Len(secretPatterns)}

\* config.pattern of one catalog entry anchored at index i of a line: index of
\* the last character of the match, 0 when there is no match at i
PatternMatchEnd(secretType, line, i) ==
    CASE secretType = "stripe_live" ->
            FixedMatchEnd(line, i, PrefixStripeLive, Alnum, StripeBodyLen)
      [] secretType = "stripe_test" ->
            FixedMatchEnd(line, i, PrefixStripeTest, Alnum, StripeBodyLen)
      [] secretType = "openai" ->
            FixedMatchEnd(line, i, PrefixOpenai, Alnum, OpenaiBodyLen)
      [] secretType = "aws_access" ->
            FixedMatchEnd(line, i, PrefixAws, UpperDigit, AwsBodyLen)
      [] secretType = "github_token" ->
            FixedMatchEnd(line, i, PrefixGithub, Alnum, GithubBodyLen)
      [] secretType = "google_api" ->
            FixedMatchEnd(line, i, PrefixGoogle, GoogleClassJs, GoogleBodyLen)
      [] secretType = "jwt_secret" -> JwtMatchEnd(line, i)
      [] secretType = "database_url" -> DbMatchEnd(line, i)
      [] OTHER -> 0

RECURSIVE MatchAllFrom(_, _, _)
\* the matches of a global pattern from index p on: leftmost first, each
\* search resuming after the previous match (lastIndex)
MatchAllFrom(secretType, line, p) ==
    LET starts == {i \in p..Len(line) : PatternMatchEnd(secretType, line, i) # 0} IN
    IF starts = {} THEN <<>>
    ELSE LET i == CHOOSE x \in starts : \A y \in starts : x <= y
             e == PatternMatchEnd(secretType, line, i)
         IN  <<SubSeq(line, i, e)>> \o MatchAllFrom(secretType, line, e + 1)

\* [...line.matchAll(config.pattern)] as the sequence of the match[0] values:
\* matchAll iterates a clone of the pattern that starts at the lastIndex of
\* the pattern object
MatchAll(secretType, line) == MatchAllFrom(secretType, line, lastIndex[secretType] + 1)

\* lastIndex of a pattern object after a line, as config.pattern.test(line)
\* leaves it: the end of the first match from li on, 0 when there is none
LastIndexAfterLine_Test(secretType, line, li) ==
    LET starts == {i \in (li + 1)..Len(line) : PatternMatchEnd(secretType, line, i) # 0} IN
    IF starts = {} THEN 0
    ELSE PatternMatchEnd(secretType, line, CHOOSE x \in starts : \A y \in starts : x <= y)

\* lastIndex of a pattern object after [...line.matchAll(config.pattern)]:
\* only the clone advances, the pattern object keeps its lastIndex
LastIndexAfterLine(secretType, line, li) == li

RECURSIVE LastIndexAfterLines(_, _, _, _)
\* lastIndex of a pattern object after lines.forEach from line n on
LastIndexAfterLines(secretType, lines, n, li) ==
    IF n > Len(lines) THEN li
    ELSE LastIndexAfterLines(secretType, lines, n + 1,
                             LastIndexAfterLine(secretType, lines[n], li))

(***************************************************************************)
(* The file system and node's path module.                                 *)
(***************************************************************************)
\* an entry of the index or of a commit: a blob, or no entry for the path
Absent == [present |-> FALSE, content |-> <<>>]
Blob(content) == [present |-> TRUE, content |-> content]

NameEnv == <<".","e","n","v">>
NameAppJs == <<"a","p","p",".","j","s">>
NameDataBin == <<"d","a","t","a",".","b","i","n">>

\* the paths of the modelled working tree, each directory before its entries
\* and the entries of a directory in directory-listing order; a path is the
\* sequence of its names below the project root '.'
NameLib == <<"l","i","b">>
NameNodeModules == <<"n","o","d","e","_","m","o","d","u","l","e","s">>
NameSecretBin == <<"s","e","c","r","e","t",".","b","i","n">>
NameSecretEnv == <<"s","e","c","r","e","t",".","e","n","v">>

AllPaths == << <<NameEnv>>, <<NameAppJs>>, <<NameDataBin>>,
               <<NameLib>>, <<NameLib, NameAppJs>>,
               <<NameNodeModules>>, <<NameNodeModules, NameAppJs>>,
               <<NameSecretBin>>, <<NameSecretEnv>> >>
PathSet == {AllPaths[k] : k \in 1..Len(AllPaths)}

NoEntry == [type |-> "none", content |-> <<>>, ok |-> FALSE]
\* a regular file; ok: the file can be read
FileNode(content, readable) == [type |-> "file", content |-> content, ok |-> readable]
\* a directory; ok: the directory can be listed
DirNode(listable) == [type |-> "dir", content |-> <<>>, ok |-> listable]
\* an entry that statSync fails on (dangling link, no permission)
BrokenNode == [type |-> "broken", content |-> <<>>, ok |-> FALSE]

RECURSIVE JoinPath(_)
\* path.join of the names of a path, also what path.relative('.', p) gives
JoinPath(p) ==
    IF Len(p) = 0 THEN <<".">>
    ELSE IF Len(p) = 1 THEN p[1]
    ELSE JoinPath(SubSeq(p, 1, Len(p) - 1)) \o <<"/">> \o p[Len(p)]

\* index of the last '.' of a name, 0 when there is none
LastDot(name) ==
    IF \E i \in 1..Len(name) : name[i] = "."
    THEN CHOOSE i \in 1..Len(name) :
            name[i] = "." /\ \A k \in (i + 1)..Len(name) : name[k] # "."
    ELSE 0

\* path.extname on the last name of a path
ExtName(name) ==
    LET d == LastDot(name) IN
    IF d <= 1 THEN <<>> ELSE SubSeq(name, d, Len(name))

\* fs.existsSync
ExistsSync(p) == p \in PathSet /\ fsys[p].type # "none"

\* fs.readdirSync of a listable directory: the names of its entries
ReaddirSync(dir) ==
    LET RECURSIVE names(_)
        names(k) ==
            IF k > Len(AllPaths) THEN <<>>
            ELSE LET p == AllPaths[k] IN
                 (IF /\ Len(p) = Len(dir) + 1
                     /\ SubSeq(p, 1, Len(dir)) = dir
                     /\ fsys[p].type # "none"
                  THEN <<p[Len(p)]>> ELSE <<>>) \o names(k + 1)
    IN  names(1)

\* the root is a directory that can be listed; other directories are nodes
DirListable(dir) == dir = <<>> \/ (dir \in PathSet /\ fsys[dir].type = "dir" /\ fsys[dir].ok)

(***************************************************************************)
(* lib/patterns.js: fileExtensions, ignoreDirs, sensitiveFiles.            *)
(***************************************************************************)
fileExtensions == {<<".","j","s">>, <<".","t","s">>, <<".","j","s","x">>, <<".","t","s","x">>, <<".","p","y">>, <<".","r","b">>, <<".","p","h","p">>, <<".","j","a","v","a">>,
                   <<".","e","n","v">>, <<".","j","s","o","n">>, <<".","y","a","m","l">>, <<".","y","m","l">>, <<".","t","x","t">>, <<".","m","d">>, <<".","c","o","n","f","i","g">>}

ignoreDirs == {<<"n","o","d","e","_","m","o","d","u","l","e","s">>, <<".","g","i","t">>, <<"d","i","s","t">>, <<"b","u","i","l","d">>, <<"_","_","p","y","c","a","c","h","e","_","_">>, <<"v","e","n","d","o","r">>,
               <<".","v","e","n","v">>, <<"e","n","v">>, <<"t","a","r","g","e","t">>}

sensitiveFiles == <<<<".","e","n","v","*">>, <<"s","e","c","r","e","t","s",".","j","s","o","n">>, <<"c","o","n","f","i","g",".","j","s","o","n">>, <<"c","r","e","d","e","n","t","i","a","l","s",".","j","s","o","n">>,
                    <<"p","r","i","v","a","t","e",".","k","e","y">>, <<"*",".","p","e","m">>, <<"i","d","_","r","s","a">>, <<"i","d","_","d","s","a">>>>

(***************************************************************************)
(* lib/detector.js.                                                        *)
(***************************************************************************)
\* shouldScanFile that is true for every file
shouldScanFile_Always(p) == TRUE

shouldScanFile(p) ==
    LET fileName == p[Len(p)] IN
    \/ StartsWith(fileName, NameEnv)
    \/ ExtName(fileName) \in fileExtensions

\* shouldIgnoreDir that knows .git only
shouldIgnoreDir_GitOnly(dirName) == dirName = <<".","g","i","t">>

shouldIgnoreDir(dirName) == dirName \in ignoreDirs

\* getSeverity with openai listed as high risk
getSeverity_OpenaiHigh(secretType) ==
    IF secretType \in {"stripe_live", "aws_access", "jwt_secret", "database_url", "openai"}
    THEN "high"
    ELSE IF secretType \in {"github_token"} THEN "medium"
    ELSE "low"

getSeverity(secretType) ==
    IF secretType \in {"stripe_live", "aws_access", "jwt_secret", "database_url"} THEN "high"
    ELSE IF secretType \in {"openai", "github_token"} THEN "medium"
    ELSE "low"

PreviewLen == 12
Ellipsis == <<".",".",".">>

\* Finding with the whole match[0] as the preview
Finding_WholeMatch(file, lineNumber, config, match0) ==
    [file |-> file,
     line |-> lineNumber + 1,
     type |-> config.type,
     description |-> config.description,
     suggestion |-> config.suggestion,
     match |-> match0 \o Ellipsis,
     severity |-> getSeverity(config.type)]

\* Finding with the 0-based index of forEach as the line
Finding_ZeroBasedLine(file, lineNumber, config, match0) ==
    [file |-> file,
     line |-> lineNumber,
     type |-> config.type,
     description |-> config.description,
     suggestion |-> config.suggestion,
     match |-> Substring0(match0, PreviewLen) \o Ellipsis,
     severity |-> getSeverity(config.type)]

\* the object pushed for one match
Finding(file, lineNumber, config, match0) ==
    [file |-> file,
     line |-> lineNumber + 1,
     type |-> config.type,
     description |-> config.description,
     suggestion |-> config.suggestion,
     match |-> Substring0(match0, PreviewLen) \o Ellipsis,
     severity |-> getSeverity(config.type)]

\* FindingsOfLine with only the first match of the line (a pattern without
\* the global flag)
FindingsOfLine_FirstMatchOnly(file, config, line, lineNumber) ==
    LET matches == MatchAll(config.type, line) IN
    IF Len(matches) = 0 THEN <<>>
    ELSE <<Finding(file, lineNumber, config, matches[1])>>

\* matches.forEach(match => findings.push(...)) for one line (lineNumber is
\* the 0-based index forEach passes)
FindingsOfLine(file, config, line, lineNumber) ==
    LET matches == MatchAll(config.type, line) IN
    [m \in 1..Len(matches) |-> Finding(file, lineNumber, config, matches[m])]

RECURSIVE FindingsOfPattern(_, _, _, _)
\* lines.forEach((line, lineNumber) => ...) for one catalog entry, from
\* index lineNumber on
FindingsOfPattern(file, config, lines, lineNumber) ==
    IF lineNumber >= Len(lines) THEN <<>>
    ELSE FindingsOfLine(file, config, lines[lineNumber + 1], lineNumber)
            \o FindingsOfPattern(file, config, lines, lineNumber + 1)

RECURSIVE FindingsFromEntry(_, _, _)
\* for (const [secretType, config] of Object.entries(secretPatterns)), from
\* entry k on
FindingsFromEntry(file, lines, k) ==
    IF k > Len(secretPatterns) THEN <<>>
    ELSE FindingsOfPattern(file, secretPatterns[k], lines, 0)
            \o FindingsFromEntry(file, lines, k + 1)

\* the body of scanFileForSecrets' try block once the content is read
ScanContent(file, content) == FindingsFromEntry(file, SplitNewline(content), 1)

\* fs.readFileSync(filePath, 'utf8') succeeds
ReadOk(p) == p \in PathSet /\ fsys[p].type = "file" /\ fsys[p].ok

WarnReadFile == <<"{warn}">> \o <<" "," ","C","o","u","l","d"," ","n","o","t"," ","r","e","a","d"," ","f","i","l","e",":"," ">>
WarnReadDir == <<"{warn}">> \o <<" "," ","C","o","u","l","d"," ","n","o","t"," ","r","e","a","d"," ","d","i","r","e","c","t","o","r","y",":"," ">>

scanFileForSecrets(p) ==
    IF ReadOk(p) THEN ScanContent(JoinPath(p), fsys[p].content) ELSE <<>>

\* what scanFileForSecrets writes with console.warn
scanFileWarnings(p) ==
    IF ReadOk(p) THEN <<>>
    ELSE <<WarnReadFile \o JoinPath(p) \o <<" ","-"," ">> \o <<"{error.message}">>>>

\* What a scan does, in order, as a sequence of effects: the calls of the fs
\* module with whether they succeeded, the findings pushed on allFindings
\* and the lines warned.
FsCall(op, path, ok) == [op |-> op, path |-> path, ok |-> ok, value |-> <<>>]
Push(path, fs) == [op |-> "push", path |-> path, ok |-> TRUE, value |-> fs]
Warn(path, text) == [op |-> "warn", path |-> path, ok |-> TRUE, value |-> <<text>>]

RECURSIVE ValuesOf(_, _, _)
\* the values of the effects of one kind, from effect k on, in order
ValuesOf(op, effects, k) ==
    IF k > Len(effects) THEN <<>>
    ELSE (IF effects[k].op = op THEN effects[k].value ELSE <<>>) \o ValuesOf(op, effects, k + 1)

\* the findings pushed, the lines warned and the fs calls of a scan
Pushed(effects) == ValuesOf("push", effects, 1)
Warned(effects) == ValuesOf("warn", effects, 1)
FsCalls(effects) == SelectSeq(effects, LAMBDA e : e.op \notin {"push", "warn"})

\* what scanFileForSecrets(fullPath) warns when the read fails
WarnFile(fullPath) ==
    IF ReadOk(fullPath) THEN <<>>
    ELSE <<[op |-> "warn", path |-> fullPath, ok |-> TRUE, value |-> scanFileWarnings(fullPath)]>>

\* the body for one item with a read that is made again after it failed
ScanItem_RetryRead(fullPath, item, inside) ==
    LET stat == fsys[fullPath] IN
    <<FsCall("statSync", fullPath, stat.type # "broken")>>
    \o (IF stat.type = "broken" THEN <<>>
        ELSE IF stat.type = "dir" THEN
            IF ~shouldIgnoreDir(item) THEN inside ELSE <<>>
        ELSE IF stat.type = "file" /\ shouldScanFile(fullPath) THEN
            <<FsCall("readFileSync", fullPath, ReadOk(fullPath))>>
                \o (IF ReadOk(fullPath) THEN <<>>
                    ELSE <<FsCall("readFileSync", fullPath, FALSE)>>)
                \o WarnFile(fullPath)
                \o <<Push(fullPath, scanFileForSecrets(fullPath))>>
        ELSE <<>>)

\* the body of the inner try block for one item: inside is what
\* scanRecursive(fullPath) does when the item is a directory that is scanned
ScanItem(fullPath, item, inside) ==
    LET stat == fsys[fullPath] IN
    <<FsCall("statSync", fullPath, stat.type # "broken")>>
    \o (IF stat.type = "broken" THEN <<>>
        ELSE IF stat.type = "dir" THEN
            IF ~shouldIgnoreDir(item) THEN inside ELSE <<>>
        ELSE IF stat.type = "file" /\ shouldScanFile(fullPath) THEN
            <<FsCall("readFileSync", fullPath, ReadOk(fullPath))>>
                \o WarnFile(fullPath)
                \o <<Push(fullPath, scanFileForSecrets(fullPath))>>
        ELSE <<>>)

\* a loop that ends at the first item with a failed fs call
ThenNextItems_StopAtFailure(here, rest) ==
    IF \E k \in 1..Len(here) : ~here[k].ok THEN here ELSE here \o rest

\* the for loop goes on with the next items whatever happened for the item
ThenNextItems(here, rest) == here \o rest

RECURSIVE Traverse(_, _, _)
\* scanRecursive and its for loop as one recursion: Traverse(currentPath,
\* <<>>, 0) is the call scanRecursive(currentPath), Traverse(currentPath,
\* items, k) with k >= 1 the loop from item k on.  The result is the
\* effects of the call.
Traverse(currentPath, items, k) ==
    IF k = 0 THEN
        IF DirListable(currentPath)
        THEN <<FsCall("readdirSync", currentPath, TRUE)>>
                \o Traverse(currentPath, ReaddirSync(currentPath), 1)
        ELSE <<FsCall("readdirSync", currentPath, FALSE),
               Warn(currentPath, WarnReadDir \o JoinPath(currentPath))>>
    ELSE IF k > Len(items) THEN <<>>
    ELSE
        LET fullPath == Append(currentPath, items[k]) IN
        ThenNextItems(ScanItem(fullPath, items[k], Traverse(fullPath, <<>>, 0)),
                      Traverse(currentPath, items, k + 1))

scanRecursive(currentPath) == Traverse(currentPath, <<>>, 0)

\* scanDirectory: the allFindings it returns, with what it warned and the fs
\* calls it made
scanDirectory(dirPath) ==
    [findings |-> Pushed(scanRecursive(dirPath)),
     warnings |-> Warned(scanRecursive(dirPath)),
     trace |-> FsCalls(scanRecursive(dirPath))]

\* lastIndex of one pattern object after scanFileForSecrets(p)
LastIndexAfterFile(secretType, p, li) ==
    IF ReadOk(p) THEN LastIndexAfterLines(secretType, SplitNewline(fsys[p].content), 1, li)
    ELSE li

RECURSIVE LastIndexAfterCalls(_, _, _, _)
\* lastIndex of one pattern object after the files read by a scanDirectory
\* call with the given effects, from effect k on
LastIndexAfterCalls(secretType, effects, k, li) ==
    IF k > Len(effects) THEN li
    ELSE LastIndexAfterCalls(secretType, effects, k + 1,
            IF effects[k].op = "readFileSync"
            THEN LastIndexAfterFile(secretType, effects[k].path, li) ELSE li)

\* new RegExp(pattern.replace('*', '.*')).test(fileName) for the two globs of
\* sensitiveFiles: an unanchored search for <any character><rest> resp.
\* <rest><any characters>
SensitiveRegexTest(pattern, fileName) ==
    LET star == CHOOSE i \in 1..Len(pattern) : pattern[i] = "*"
        before == SubSeq(pattern, 1, star - 1)
        after == SubSeq(pattern, star + 1, Len(pattern))
        \* a `.` of the pattern matches any character but a line terminator
        litAt(lit, i) ==
            /\ i >= 1 /\ i + Len(lit) - 1 <= Len(fileName)
            /\ \A k \in 1..Len(lit) :
                  IF lit[k] = "." THEN fileName[i + k - 1] \notin LineTerminator
                  ELSE fileName[i + k - 1] = lit[k]
    IN  \E i \in 1..(Len(fileName) + 1) :
            /\ litAt(before, i)
            /\ \E j \in (i + Len(before))..(Len(fileName) + 1) :
                  /\ \A k \in (i + Len(before))..(j - 1) : fileName[k] \notin LineTerminator
                  /\ litAt(after, j)

\* the predicate of sensitiveFiles.some(...)
IsSensitiveName(fileName) ==
    \E k \in 1..Len(sensitiveFiles) :
        LET pattern == sensitiveFiles[k] IN
        IF \E i \in 1..Len(pattern) : pattern[i] = "*"
        THEN SensitiveRegexTest(pattern, fileName)
        ELSE fileName = pattern

\* `git ls-files`: the paths of the index, in path order
GitLsFiles ==
    LET RECURSIVE ls(_)
        ls(k) ==
            IF k > Len(AllPaths) THEN <<>>
            ELSE (IF index[AllPaths[k]] # Absent THEN <<AllPaths[k]>> ELSE <<>>) \o ls(k + 1)
    IN  ls(1)

\* detector.js is an ES module: where the runtime defines no `require`, the
\* call in the try block throws a ReferenceError and the catch returns []
findTrackedSensitiveFiles ==
    IF ~requireDefined THEN <<>>
    ELSE SelectSeq(GitLsFiles, LAMBDA file : IsSensitiveName(file[Len(file)]))

detectFramework ==
    LET has(n) == ExistsSync(<<n>>)
        frameworks ==
            (IF has(<<"p","a","c","k","a","g","e",".","j","s","o","n">>) THEN <<<<"n","o","d","e">>>> ELSE <<>>)
            \o (IF has(<<"r","e","q","u","i","r","e","m","e","n","t","s",".","t","x","t">>) \/ has(<<"P","i","p","f","i","l","e">>) \/ has(<<"p","y","p","r","o","j","e","c","t",".","t","o","m","l">>)
                THEN <<<<"p","y","t","h","o","n">>>> ELSE <<>>)
            \o (IF has(<<"c","o","m","p","o","s","e","r",".","j","s","o","n">>) THEN <<<<"p","h","p">>>> ELSE <<>>)
            \o (IF has(<<"G","e","m","f","i","l","e">>) THEN <<<<"r","u","b","y">>>> ELSE <<>>)
            \o (IF has(<<"p","o","m",".","x","m","l">>) \/ has(<<"b","u","i","l","d",".","g","r","a","d","l","e">>) THEN <<<<"j","a","v","a">>>> ELSE <<>>)
    IN  IF Len(frameworks) > 0 THEN frameworks ELSE <<<<"g","e","n","e","r","i","c">>>>

(***************************************************************************)
(* bin/cli.js.  The emoji of the messages are written {name}.              *)
(***************************************************************************)
RECURSIVE JoinWith(_, _)
\* Array.prototype.join
JoinWith(parts, sep) ==
    IF Len(parts) = 0 THEN <<>>
    ELSE IF Len(parts) = 1 THEN parts[1]
    ELSE parts[1] \o sep \o JoinWith(Tail(parts), sep)

\* String.prototype.toUpperCase on the severity names
SeverityUpper(severity) ==
    CASE severity = "high" -> <<"H","I","G","H">>
      [] severity = "medium" -> <<"M","E","D","I","U","M">>
      [] OTHER -> <<"L","O","W">>

SeverityIcon(severity) ==
    IF severity = "high" THEN <<"{siren}">>
    ELSE IF severity = "medium" THEN <<"{warn}">> ELSE <<"{bulb}">>

\* the four console.log calls for one finding
DisplayOne(finding) ==
    << <<" "," "," ">> \o finding.description,
       <<" "," "," ">> \o <<"{folder}">> \o <<" ">> \o finding.file \o <<":">> \o ToDecimal(finding.line),
       <<" "," "," ">> \o <<"{key}">> \o <<" ">> \o finding.match,
       <<" "," "," ">> \o <<"{bulb}">> \o <<" ">> \o finding.suggestion \o <<"\n">> >>

RECURSIVE DisplayGroup(_)
\* grouped[severity].forEach(...)
DisplayGroup(group) ==
    IF Len(group) = 0 THEN <<>>
    ELSE DisplayOne(Head(group)) \o DisplayGroup(Tail(group))

\* findings.reduce(...)[severity]: the findings of one severity, in order
GroupOf(fs, severity) == SelectSeq(fs, LAMBDA f : f.severity = severity)

\* the block printed for one severity
DisplaySeverity(fs, severity) ==
    IF Len(GroupOf(fs, severity)) = 0 THEN <<>>
    ELSE <<SeverityIcon(severity) \o <<" ">> \o SeverityUpper(severity) \o <<" ","R","I","S","K",":">> \o <<"\n">>>>
            \o DisplayGroup(GroupOf(fs, severity))

\* displayFindings without the block of the low group
displayFindingsOutput_NoLowGroup(fs) ==
    IF Len(fs) = 0 THEN << <<"{check}">> \o <<" ","N","o"," ","s","e","c","r","e","t","s"," ","d","e","t","e","c","t","e","d","!">> >>
    ELSE << <<"{cross}">> \o <<" ","F","o","u","n","d"," ">> \o ToDecimal(Len(fs)) \o <<" ","p","o","t","e","n","t","i","a","l"," ","s","e","c","r","e","t","(","s",")",":">>
                \o <<"\n">> >>
            \o DisplaySeverity(fs, "high")
            \o DisplaySeverity(fs, "medium")

\* what displayFindings prints
displayFindingsOutput(fs) ==
    IF Len(fs) = 0 THEN << <<"{check}">> \o <<" ","N","o"," ","s","e","c","r","e","t","s"," ","d","e","t","e","c","t","e","d","!">> >>
    ELSE << <<"{cross}">> \o <<" ","F","o","u","n","d"," ">> \o ToDecimal(Len(fs)) \o <<" ","p","o","t","e","n","t","i","a","l"," ","s","e","c","r","e","t","(","s",")",":">>
                \o <<"\n">> >>
            \o DisplaySeverity(fs, "high")
            \o DisplaySeverity(fs, "medium")
            \o DisplaySeverity(fs, "low")

\* what displayFindings returns
displayFindings(fs) == Len(fs) # 0

\* what displayTrackedFiles prints
displayTrackedFilesOutput(trackedFiles) ==
    IF Len(trackedFiles) = 0
    THEN << <<"{check}">> \o <<" ","N","o"," ","s","e","n","s","i","t","i","v","e"," ","f","i","l","e","s"," ","t","r","a","c","k","e","d"," ","i","n"," ","g","i","t">> >>
    ELSE << <<"{search}">> \o <<" ","F","o","u","n","d"," ">> \o ToDecimal(Len(trackedFiles))
                \o <<" ","s","e","n","s","i","t","i","v","e"," ","f","i","l","e","(","s",")"," ","a","l","r","e","a","d","y"," ","t","r","a","c","k","e","d"," ","i","n"," ","g","i","t",":">> \o <<"\n">> >>
            \o [k \in 1..Len(trackedFiles) |->
                    <<" "," "," ">> \o <<"{folder}">> \o <<" ">> \o JoinPath(trackedFiles[k])]
            \o << <<"\n", "{bulb}">> \o <<" ","R","u","n"," ","w","i","t","h"," ","-","-","c","l","e","a","n"," ","t","o"," ","r","e","m","o","v","e"," ","t","h","e","s","e"," ","f","r","o","m"," ","g","i","t"," ","t","r","a","c","k","i","n","g">>
                    \o <<"\n">> >>

\* what displayTrackedFiles returns
displayTrackedFiles(trackedFiles) == Len(trackedFiles) # 0

\* the output of the scan command
ScanCommandOutput(fs, trackedFiles) ==
    << <<"{shield}">> \o <<" "," ","S","e","c","u","r","e"," ","P","r","o","j","e","c","t"," ","-"," ","P","r","o","t","e","c","t","i","n","g"," ","y","o","u","r"," ","s","e","c","r","e","t","s">> \o <<"\n">>,
       <<"{package}">> \o <<" ","D","e","t","e","c","t","e","d",":"," ">> \o JoinWith(detectFramework, <<","," ">>) \o <<"\n">> >>
    \o displayFindingsOutput(fs)
    \o displayTrackedFilesOutput(trackedFiles)
    \o (IF ~displayFindings(fs) /\ ~displayTrackedFiles(trackedFiles)
        THEN << <<"\n", "{party}">> \o <<" ","Y","o","u","r"," ","p","r","o","j","e","c","t"," ","l","o","o","k","s"," ","s","e","c","u","r","e","!">>,
                <<"{bulb}">> \o <<" ","R","u","n"," ","{backtick}","n","p","x"," ","s","e","c","u","r","e","-","p","r","o","j","e","c","t"," ","i","n","i","t","{backtick}"," ","t","o"," ","s","e","t"," ","u","p"," ","p","r","e","v","e","n","t","i","o","n"," ","h","o","o","k","s">> >>
        ELSE <<>>)

\* the exit status of the scan command from the findings alone
ScanCommandExit_FindingsOnly(fs, trackedFiles) ==
    IF displayFindings(fs) THEN 1 ELSE 0

\* process.exit(hasSecrets || hasTrackedFiles ? 1 : 0)
ScanCommandExit(fs, trackedFiles) ==
    IF displayFindings(fs) \/ displayTrackedFiles(trackedFiles) THEN 1 ELSE 0

(***************************************************************************)
(* git: the index, HEAD and `git diff --cached`.                           *)
(***************************************************************************)
\* status letter of a path in `git diff --cached` before rename detection
RawStatus(p) ==
    IF index[p] = head[p] THEN "="
    ELSE IF head[p] = Absent THEN "A"
    ELSE IF index[p] = Absent THEN "D"
    ELSE "M"

\* position of a path in path order
PathPos(p) == CHOOSE k \in 1..Len(AllPaths) : AllPaths[k] = p

\* exact rename detection (diff.renames, on by default): an added path with
\* the content of a deleted path is reported as the rename (R) of it when it
\* is the first such path, as a copy (C) of it otherwise
DiffStatus(p) ==
    LET s == RawStatus(p)
        sources == {q \in PathSet : RawStatus(q) = "D" /\ head[q] = index[p]}
        same == {r \in PathSet : RawStatus(r) = "A" /\ index[r] = index[p]}
    IN  IF s = "A" /\ sources # {}
        THEN IF \A r \in same : PathPos(p) <= PathPos(r) THEN "R" ELSE "C"
        ELSE s

\* git diff --cached --name-only --diff-filter=ACM, in path order
StagedFiles ==
    LET RECURSIVE ls(_)
        ls(k) ==
            IF k > Len(AllPaths) THEN <<>>
            ELSE (IF DiffStatus(AllPaths[k]) \in {"A", "C", "M"}
                  THEN <<AllPaths[k]>> ELSE <<>>) \o ls(k + 1)
    IN  ls(1)

(***************************************************************************)
(* templates/pre-commit.                                                   *)
(***************************************************************************)
\* the greps of check_for_secrets, in the order they are run
HookKinds == <<"stripe_live", "aws_access", "openai", "github_token",
               "database_url", "google_api", "stripe_test">>

\* one grep pattern matches at index i of a line
GrepMatchesAt(kind, line, i) ==
    CASE kind = "stripe_live" ->
            FixedMatchEnd(line, i, PrefixStripeLive, Alnum, StripeBodyLen) # 0
      [] kind = "aws_access" ->
            FixedMatchEnd(line, i, PrefixAws, UpperDigit, AwsBodyLen) # 0
      [] kind = "openai" ->
            FixedMatchEnd(line, i, PrefixOpenai, Alnum, OpenaiBodyLen) # 0
      [] kind = "github_token" ->
            FixedMatchEnd(line, i, PrefixGithub, Alnum, GithubBodyLen) # 0
      [] kind = "database_url" ->
            \E k \in 1..Len(DbSchemes) : StartsWithAt(line, DbSchemes[k] \o SchemeSep, i)
      [] kind = "google_api" ->
            FixedMatchEnd(line, i, PrefixGoogle, GoogleClassGrep, GoogleBodyLen) # 0
      [] kind = "stripe_test" ->
            FixedMatchEnd(line, i, PrefixStripeTest, Alnum, StripeBodyLen) # 0
      [] OTHER -> FALSE

\* grep -q PATTERN "$file": some line of the file has a match
GrepQ(kind, content) ==
    LET lines == SplitNewline(content) IN
    \E n \in 1..Len(lines) : \E i \in 1..Len(lines[n]) : GrepMatchesAt(kind, lines[n], i)

\* check_for_secrets: the kinds it reports for a file, in order, and its
\* return status
check_for_secrets(p) ==
    IF ~ReadOk(p) THEN [reported |-> <<>>, status |-> 0]
    ELSE LET reported == SelectSeq(HookKinds, LAMBDA kind : GrepQ(kind, fsys[p].content))
             found_secrets == \E n \in 1..Len(HookKinds) : GrepQ(HookKinds[n], fsys[p].content)
         IN  [reported |-> reported, status |-> IF found_secrets THEN 1 ELSE 0]

\* the case patterns of main, matched against the path
HookSuffixes == {<<".","j","s">>, <<".","t","s">>, <<".","j","s","x">>, <<".","t","s","x">>, <<".","p","y">>, <<".","r","b">>, <<".","p","h","p">>, <<".","j","a","v","a">>,
                 <<".","j","s","o","n">>, <<".","y","a","m","l">>, <<".","y","m","l">>, <<".","t","x","t">>, <<".","m","d">>, <<".","c","o","n","f","i","g">>}

\* case "$file" in *.js|...|*.env*|...
HookCaseMatches(p) ==
    LET file == JoinPath(p) IN
    \/ \E s \in HookSuffixes : EndsWith(file, s)
    \/ Includes(file, NameEnv)

RECURSIVE HookLoop(_, _)
\* for file in $staged_files, from file k on: the <<file, kind>> reports, the
\* secrets_found flag and files_checked.  The names of the model hold no
\* whitespace, so word splitting of $staged_files gives the names.
HookLoop(staged, k) ==
    IF k > Len(staged)
    THEN [reports |-> <<>>, secrets_found |-> FALSE, files_checked |-> 0]
    ELSE
        LET p == staged[k]
            rest == HookLoop(staged, k + 1)
            check == check_for_secrets(p)
        IN  IF fsys[p].type # "file" THEN rest
            ELSE IF HookCaseMatches(p)
            THEN [reports |-> [n \in 1..Len(check.reported) |-> <<p, check.reported[n]>>]
                                \o rest.reports,
                  secrets_found |-> (check.status # 0) \/ rest.secrets_found,
                  files_checked |-> rest.files_checked + 1]
            ELSE rest

\* main: what it reports and its exit status
HookMain ==
    LET staged == StagedFiles
        loop == HookLoop(staged, 1)
    IN  IF Len(staged) = 0 THEN [reports |-> <<>>, exit |-> 0]
        ELSE [reports |-> loop.reports, exit |-> IF loop.secrets_found THEN 1 ELSE 0]

\* how scanDirectory ends: every fs call is inside a try block whose catch
\* goes on or warns, so the call returns allFindings
ScanDirectoryOutcome(dirPath) == "returned"

(***************************************************************************)
(* lib/gitignore.js (its code is in README.md from line 114 on) with       *)
(* gitignoreTemplates of lib/patterns.js.                                  *)
(***************************************************************************)
\* the template of each framework name, as Object.entries order gives it
gitignoreTemplates == <<
    [framework |-> <<"n","o","d","e">>,
     patterns |-> <<<<".","e","n","v","*">>, <<"n","o","d","e","_","m","o","d","u","l","e","s","/">>, <<".","D","S","_","S","t","o","r","e">>, <<"n","p","m","-","d","e","b","u","g",".","l","o","g","*">>, <<"d","i","s","t","/">>, <<"b","u","i","l","d","/">>, <<"*",".","l","o","g">>>>],
    [framework |-> <<"p","y","t","h","o","n">>,
     patterns |-> <<<<".","e","n","v","*">>, <<"_","_","p","y","c","a","c","h","e","_","_","/">>, <<"*",".","p","y","c">>, <<"*",".","p","y","o">>, <<"*",".","p","y","d">>, <<".","P","y","t","h","o","n">>, <<"v","e","n","v","/">>, <<"e","n","v","/">>, <<"p","i","p","-","l","o","g",".","t","x","t">>>>],
    [framework |-> <<"p","h","p">>,
     patterns |-> <<<<".","e","n","v","*">>, <<"v","e","n","d","o","r","/">>, <<"*",".","l","o","g">>, <<".","D","S","_","S","t","o","r","e">>>>],
    [framework |-> <<"r","u","b","y">>,
     patterns |-> <<<<".","e","n","v","*">>, <<".","b","u","n","d","l","e","/">>, <<"v","e","n","d","o","r","/">>, <<"*",".","l","o","g">>, <<".","D","S","_","S","t","o","r","e">>>>],
    [framework |-> <<"j","a","v","a">>,
     patterns |-> <<<<".","e","n","v","*">>, <<"t","a","r","g","e","t","/">>, <<"*",".","c","l","a","s","s">>, <<"*",".","l","o","g">>, <<".","D","S","_","S","t","o","r","e">>>>],
    [framework |-> <<"g","e","n","e","r","i","c">>,
     patterns |-> <<<<".","e","n","v","*">>, <<"*",".","l","o","g">>, <<".","D","S","_","S","t","o","r","e">>, <<"s","e","c","r","e","t","s",".","j","s","o","n">>, <<"c","o","n","f","i","g",".","j","s","o","n">>>>] >>

\* gitignoreTemplates[framework] || gitignoreTemplates.generic
TemplateOf(framework) ==
    LET known == {k \in 1..Len(gitignoreTemplates) : gitignoreTemplates[k].framework = framework} IN
    IF known # {} THEN gitignoreTemplates[CHOOSE k \in known : TRUE].patterns
    ELSE gitignoreTemplates[Len(gitignoreTemplates)].patterns

securityPatterns == <<<<".","e","n","v","*">>, <<"*",".","l","o","g">>, <<".","D","S","_","S","t","o","r","e">>>>

\* .gitignore does not exist
NoGitignore == [exists |-> FALSE, content |-> <<>>]
\* .gitignore with a content
GitignoreOf(content) == [exists |-> TRUE, content |-> content]

\* String.prototype.trim
Trim(s) ==
    LET kept == {i \in 1..Len(s) : s[i] \notin Whitespace} IN
    IF kept = {} THEN <<>>
    ELSE SubSeq(s, CHOOSE i \in kept : \A j \in kept : i <= j,
                   CHOOSE i \in kept : \A j \in kept : j <= i)

\* a line without the \r that split(/\r?\n/) takes with the \n after it
DropCR(line) ==
    IF Len(line) > 0 /\ line[Len(line)] = "\r" THEN SubSeq(line, 1, Len(line) - 1) ELSE line

RECURSIVE LinesFrom(_, _)
\* the pieces of content.split(/\r?\n/) from a position on; the position of
\* the next newline is bound once
LinesFrom(content, start) ==
    IF \A j \in start..Len(content) : content[j] # "\n"
    THEN <<SubSeq(content, start, Len(content))>>
    ELSE CHOOSE lines \in
            {<<DropCR(SubSeq(content, start, i - 1))>> \o LinesFrom(content, i + 1) :
                i \in {j \in start..Len(content) :
                          content[j] = "\n" /\ \A k \in start..(j - 1) : content[k] # "\n"}} : TRUE

\* content.split(/\r?\n/)
SplitLines(content) == LinesFrom(content, 1)

\* originalContent.replace(/\r?\n$/, '')
DropFinalNewline(content) ==
    IF EndsWith(content, <<"\r", "\n">>) THEN SubSeq(content, 1, Len(content) - 2)
    ELSE IF EndsWith(content, <<"\n">>) THEN SubSeq(content, 1, Len(content) - 1)
    ELSE content

\* GitignoreFile.normalizePattern
normalizePattern(pattern) ==
    LET normalized == Trim(pattern) IN
    IF StartsWith(normalized, <<"!">>) THEN normalized
    ELSE IF StartsWith(normalized, <<".", "/">>) THEN SubSeq(normalized, 3, Len(normalized))
    ELSE normalized

\* the patterns GitignoreFile.load extracts from the lines
LoadedPatterns(lines) ==
    {normalizePattern(Trim(lines[n])) :
        n \in {m \in 1..Len(lines) : Trim(lines[m]) # <<>> /\ ~StartsWith(Trim(lines[m]), <<"#">>)}}

\* new GitignoreFile(filePath): the object after the constructor
GitignoreFile(file) ==
    IF file.exists
    THEN CHOOSE this \in
            {[exists |-> TRUE,
              lines |-> lines,
              patterns |-> LoadedPatterns(lines),
              originalContent |-> file.content] : lines \in {SplitLines(file.content)}} : TRUE
    ELSE [exists |-> FALSE, lines |-> <<>>, patterns |-> {}, originalContent |-> <<>>]

envPatterns == {<<".","e","n","v">>, <<".","e","n","v","*">>, <<".","e","n","v",".","*">>}

\* pattern.endsWith('/') ? pattern.slice(0, -1) : pattern
DirOf(pattern) ==
    IF EndsWith(pattern, <<"/">>) THEN SubSeq(pattern, 1, Len(pattern) - 1) ELSE pattern

\* GitignoreFile.patternsEquivalent
patternsEquivalent(pattern1, pattern2) ==
    IF pattern1 \in envPatterns /\ pattern2 \in envPatterns
    THEN pattern1 = <<".","e","n","v","*">> \/ pattern2 = <<".","e","n","v","*">>
    ELSE DirOf(pattern1) = DirOf(pattern2)

\* GitignoreFile.hasPattern
hasPattern(this, pattern) ==
    \/ normalizePattern(pattern) \in this.patterns
    \/ \E existing \in this.patterns : patternsEquivalent(existing, normalizePattern(pattern))

\* addPatterns that starts the file again with the section
addPatterns_Replaces(this, newPatterns, sectionTitle) ==
    LET patternsToAdd == SelectSeq(newPatterns, LAMBDA pattern : ~hasPattern(this, pattern))
    IN  IF Len(patternsToAdd) = 0 THEN this
        ELSE [this EXCEPT !.lines = <<<<"#", " ">> \o sectionTitle>> \o patternsToAdd]

\* GitignoreFile.addPatterns: the object after the call
addPatterns(this, newPatterns, sectionTitle) ==
    LET patternsToAdd == SelectSeq(newPatterns, LAMBDA pattern : ~hasPattern(this, pattern))
        needsNewline == Len(this.lines) > 0 /\ Trim(this.lines[Len(this.lines)]) # <<>>
    IN  IF Len(patternsToAdd) = 0 THEN this
        ELSE IF ~this.exists
        THEN [this EXCEPT !.lines = <<<<"#", " ">> \o sectionTitle>> \o patternsToAdd]
        ELSE [this EXCEPT
                !.lines = this.lines \o (IF needsNewline THEN <<<<>>>> ELSE <<>>)
                              \o <<<<"#", " ">> \o sectionTitle>> \o patternsToAdd,
                !.patterns = this.patterns
                              \cup {normalizePattern(patternsToAdd[k]) : k \in 1..Len(patternsToAdd)}]

\* GitignoreFile.save: whether it writes, and the content it writes
SaveWrites(this) ==
    ~(this.exists /\ JoinWith(this.lines, <<"\n">>) = DropFinalNewline(this.originalContent))
SavedContent(this) == JoinWith(this.lines, <<"\n">>) \o <<"\n">>

RECURSIVE AddAll(_, _, _)
\* patterns.forEach(pattern => allPatterns.add(pattern)) from the k-th
\* pattern on: a Set keeps the first insertion of each value, in insertion
\* order
AddAll(allPatterns, patterns, k) ==
    IF k > Len(patterns) THEN allPatterns
    ELSE CHOOSE all \in
            {AddAll(added, patterns, k + 1) :
                added \in {IF \E j \in 1..Len(allPatterns) : allPatterns[j] = patterns[k]
                           THEN allPatterns ELSE Append(allPatterns, patterns[k])}} : TRUE

RECURSIVE PatternsOfFrameworks(_, _, _)
\* frameworks.forEach(framework => ...) onto allPatterns, from the k-th
\* framework on
PatternsOfFrameworks(allPatterns, frameworks, k) ==
    IF k > Len(frameworks) THEN allPatterns
    ELSE CHOOSE all \in
            {PatternsOfFrameworks(added, frameworks, k + 1) :
                added \in {AddAll(allPatterns, TemplateOf(frameworks[k]), 1)}} : TRUE

\* Array.from(allPatterns) of updateGitignore
patternsArray(frameworks) ==
    CHOOSE all \in
        {AddAll(ofFrameworks, securityPatterns, 1) :
            ofFrameworks \in {PatternsOfFrameworks(<<>>, frameworks, 1)}} : TRUE

\* the section title updateGitignore passes to addPatterns
SectionTitle(frameworks) ==
    <<"S","e","c","u","r","e"," ","P","r","o","j","e","c","t"," ","-"," ">> \o JoinWith(frameworks, <<",", " ">>) \o <<" ","p","a","t","t","e","r","n","s">>

\* the results of updateGitignore and the file after it, from the object
\* after addPatterns
UpdateResults(file, added, skipped, after) ==
    [updated |-> Len(added) > 0,
     added |-> added,
     skipped |-> skipped,
     file |-> IF Len(added) > 0 /\ SaveWrites(after) THEN GitignoreOf(SavedContent(after))
              ELSE file]

\* updateGitignore once the file is loaded and the patterns are collected
UpdateLoaded(frameworks, file, gitignore, patterns) ==
    CHOOSE results \in
        {UpdateResults(file, added, SelectSeq(patterns, LAMBDA pattern : hasPattern(gitignore, pattern)), after) :
            <<added, after>> \in
                {<<toAdd, addPatterns(gitignore, toAdd, SectionTitle(frameworks))>> :
                    toAdd \in {SelectSeq(patterns, LAMBDA pattern : ~hasPattern(gitignore, pattern))}}} : TRUE

\* updateGitignore: the results it returns and the file after it, when the
\* file can be read and written.  The loaded file and the collected
\* patterns are bound once.
updateGitignore(frameworks, file) ==
    CHOOSE results \in
        {UpdateLoaded(frameworks, file, gitignore, patterns) :
            gitignore \in {GitignoreFile(file)}, patterns \in {patternsArray(frameworks)}} : TRUE

\* a call of updateGitignore, previewGitignoreChanges or validateGitignore
\* with what it returned or threw: `added` is results.added or toAdd,
\* `skipped` is results.skipped or existing, `trace` is .gitignore and
\* .gitignore.tmp after each fs call of save
IgnoreResult(op, frameworks, outcome, message, updated, added, skipped, valid, trace) ==
    [op |-> op, frameworks |-> frameworks, outcome |-> outcome, message |-> message,
     updated |-> updated, added |-> added, skipped |-> skipped, valid |-> valid,
     trace |-> trace]

\* no such call has been made
NoIgnoreResult == IgnoreResult("none", <<>>, "none", <<>>, FALSE, <<>>, <<>>, FALSE, <<>>)

\* how the fs calls of save end.  writeFileSync of the temporary file:
\* "ok", "unopened" (it fails and the file is not created or touched) or
\* "partial" (it fails after the file was truncated and written in part);
\* renameSync and the unlinkSync of the cleanup: whether they succeed
SaveFault(write, rename, unlink) == [write |-> write, rename |-> rename, unlink |-> unlink]
NoSaveFault == SaveFault("ok", TRUE, TRUE)

\* .gitignore and .gitignore.tmp after an fs call of save
FsState(op, ok, file, tmp) == [op |-> op, ok |-> ok, gitignore |-> file, tmp |-> tmp]

\* what a write that fails in the middle leaves of a content
PartOf(content) == SubSeq(content, 1, Len(content) \div 2)

MsgSaveFailed == <<"F","a","i","l","e","d"," ","t","o"," ","w","r","i","t","e"," ",".","g","i","t","i","g","n","o","r","e",":"," ">> \o <<"{error.message}">>
MsgUpdateFailed == <<"F","a","i","l","e","d"," ","t","o"," ","u","p","d","a","t","e"," ",".","g","i","t","i","g","n","o","r","e",":"," ">>

\* the fs calls of the catch block of save: the temporary file is unlinked
\* where it exists, and an error of the unlink is ignored
SaveCleanup(file, tmp, fault) ==
    IF tmp.exists
    THEN <<FsState("unlinkSync", fault.unlink, file, IF fault.unlink THEN NoGitignore ELSE tmp)>>
    ELSE <<>>

\* a save that writes the content to .gitignore itself
save_InPlace(this, file, tmp, fault) ==
    IF ~SaveWrites(this) THEN [threw |-> FALSE, trace |-> <<>>]
    ELSE [threw |-> fault.write # "ok",
          trace |-> <<FsState("writeFileSync", fault.write = "ok",
                              IF fault.write = "ok" THEN GitignoreOf(SavedContent(this))
                              ELSE IF fault.write = "partial" THEN GitignoreOf(PartOf(SavedContent(this)))
                              ELSE file,
                              tmp)>>]

\* GitignoreFile.save: whether it throws, and its fs calls with the two files
\* after each
save(this, file, tmp, fault) ==
    IF ~SaveWrites(this) THEN [threw |-> FALSE, trace |-> <<>>]
    ELSE IF fault.write # "ok"
    THEN CHOOSE r \in
            {[threw |-> TRUE,
              trace |-> <<FsState("writeFileSync", FALSE, file, left)>> \o SaveCleanup(file, left, fault)] :
                left \in {IF fault.write = "partial" THEN GitignoreOf(PartOf(SavedContent(this))) ELSE tmp}} : TRUE
    ELSE IF ~fault.rename
    THEN CHOOSE r \in
            {[threw |-> TRUE,
              trace |-> <<FsState("writeFileSync", TRUE, file, written),
                          FsState("renameSync", FALSE, file, written)>>
                            \o SaveCleanup(file, written, fault)] :
                written \in {GitignoreOf(SavedContent(this))}} : TRUE
    ELSE CHOOSE r \in
            {[threw |-> FALSE,
              trace |-> <<FsState("writeFileSync", TRUE, file, written),
                          FsState("renameSync", TRUE, written, NoGitignore)>>] :
                written \in {GitignoreOf(SavedContent(this))}} : TRUE

\* the results of an updateGitignore call from what save did
UpdateCallResults(frameworks, added, skipped, saved) ==
    IF saved.threw
    THEN IgnoreResult("updateGitignore", frameworks, "threw", MsgUpdateFailed \o MsgSaveFailed,
                      FALSE, added, skipped, FALSE, saved.trace)
    ELSE IgnoreResult("updateGitignore", frameworks, "returned", <<>>,
                      Len(added) > 0, added, skipped, FALSE, saved.trace)

\* updateGitignore once the file is loaded and the patterns are collected,
\* with the fs calls of save
UpdateCallLoaded(frameworks, file, tmp, fault, gitignore, patterns) ==
    CHOOSE results \in
        {UpdateCallResults(frameworks, added,
                           SelectSeq(patterns, LAMBDA pattern : hasPattern(gitignore, pattern)),
                           IF Len(added) > 0 THEN save(after, file, tmp, fault)
                           ELSE [threw |-> FALSE, trace |-> <<>>]) :
            <<added, after>> \in
                {<<toAdd, addPatterns(gitignore, toAdd, SectionTitle(frameworks))>> :
                    toAdd \in {SelectSeq(patterns, LAMBDA pattern : ~hasPattern(gitignore, pattern))}}} : TRUE

\* updateGitignore(frameworks) under an outcome of the fs calls of save, for
\* a .gitignore that can be read
UpdateGitignoreCall(frameworks, file, tmp, fault) ==
    CHOOSE results \in
        {UpdateCallLoaded(frameworks, file, tmp, fault, gitignore, patterns) :
            gitignore \in {GitignoreFile(file)}, patterns \in {patternsArray(frameworks)}} : TRUE

\* a preview that lists every collected pattern as one to add
previewGitignoreChanges_AllPatterns(frameworks, file) ==
    IgnoreResult("previewGitignoreChanges", frameworks, "returned", <<>>, FALSE,
                 patternsArray(frameworks), <<>>, FALSE, <<>>)

\* previewGitignoreChanges(frameworks): toAdd and existing
previewGitignoreChanges(frameworks, file) ==
    CHOOSE results \in
        {IgnoreResult("previewGitignoreChanges", frameworks, "returned", <<>>, FALSE,
                      SelectSeq(patterns, LAMBDA pattern : ~hasPattern(gitignore, pattern)),
                      SelectSeq(patterns, LAMBDA pattern : hasPattern(gitignore, pattern)),
                      FALSE, <<>>) :
            gitignore \in {GitignoreFile(file)}, patterns \in {patternsArray(frameworks)}} : TRUE

essentialPatterns == <<<<".","e","n","v","*">>, <<"*",".","l","o","g">>>>

\* gitignoreTemplates[framework] || []
TemplateOrNone(framework) ==
    LET known == {k \in 1..Len(gitignoreTemplates) : gitignoreTemplates[k].framework = framework} IN
    IF known # {} THEN gitignoreTemplates[CHOOSE k \in known : TRUE].patterns ELSE <<>>

\* the issues of validateGitignore for a loaded file: one for each essential
\* pattern that is missing, one for each framework with missing patterns
ValidateIssues(frameworks, gitignore) ==
    LET missingOf(framework) ==
            SelectSeq(TemplateOrNone(framework), LAMBDA pattern : ~hasPattern(gitignore, pattern))
        essential ==
            SelectSeq(essentialPatterns, LAMBDA pattern : ~hasPattern(gitignore, pattern))
    IN  [k \in 1..Len(essential) |->
            <<"M","i","s","s","i","n","g"," ","p","a","t","t","e","r","n",":"," ">> \o essential[k]]
        \o [k \in 1..Len(SelectSeq(frameworks, LAMBDA f : Len(missingOf(f)) > 0)) |->
               LET framework == SelectSeq(frameworks, LAMBDA f : Len(missingOf(f)) > 0)[k] IN
               <<"M","i","s","s","i","n","g"," ">> \o framework \o <<" ","p","a","t","t","e","r","n","s",":"," ">>
                   \o JoinWith(missingOf(framework), <<",", " ">>)]

\* validateGitignore(frameworks): valid, and the issues as its message lines
validateGitignore(frameworks, file) ==
    IF ~file.exists
    THEN [valid |-> FALSE,
          issues |-> <<<<"N","o"," ",".","g","i","t","i","g","n","o","r","e"," ","f","i","l","e"," ","f","o","u","n","d">>>>]
    ELSE CHOOSE r \in
            {[valid |-> Len(issues) = 0, issues |-> issues] :
                issues \in {ValidateIssues(frameworks, gitignore) :
                               gitignore \in {GitignoreFile(file)}}} : TRUE

(***************************************************************************)
(* lib/hooks.js.                                                           *)
(***************************************************************************)
\* .git/hooks/pre-commit does not exist
NoHook == [exists |-> FALSE, content |-> <<>>, mode |-> "none"]
\* .git/hooks/pre-commit with a content and a mode
HookFile(content, mode) == [exists |-> TRUE, content |-> content, mode |-> mode]

\* no installHooks / uninstallHooks call has been made
NoHooksResult == [kind |-> "none", message |-> <<>>]
\* the call returned { success: true, message }
Returned(message) == [kind |-> "returned", message |-> message]
\* the call threw new Error(message)
Threw(message) == [kind |-> "threw", message |-> message]

\* templates/pre-commit, of which the model keeps the first two lines
HookTemplate == <<"#","!","/","b","i","n","/","s","h","\n","#"," ","S","e","c","u","r","e"," ","P","r","o","j","e","c","t"," ","-"," ","P","r","e","-","c","o","m","m","i","t"," ","h","o","o","k"," ","t","o"," ","p","r","e","v","e","n","t"," ","s","e","c","r","e","t","s","\n">>
\* a hook of the user
ForeignHook == <<"#","!","/","b","i","n","/","s","h","\n","n","p","m"," ","t","e","s","t","\n">>
\* a hook of the user that names the tool in a comment
ForeignHookNamingTool == <<"#","!","/","b","i","n","/","s","h","\n","#"," ","l","i","n","t",","," ","t","h","e","n"," ","s","e","c","u","r","e","-","c","o","m","m","i","t","\n","n","p","m"," ","r","u","n"," ","l","i","n","t","\n">>

MarkSecureProject == <<"S","e","c","u","r","e"," ","P","r","o","j","e","c","t">>
MarkSecureCommit == <<"s","e","c","u","r","e","-","c","o","m","m","i","t">>

\* hookContent.includes('Secure Project') || hookContent.includes('secure-commit')
IsOurHook(content) == Includes(content, MarkSecureProject) \/ Includes(content, MarkSecureCommit)

HookPathText == <<".","g","i","t","/","h","o","o","k","s","/","p","r","e","-","c","o","m","m","i","t">>

\* checkHookInstallation
checkHookInstallation ==
    IF ~gitDir THEN [installed |-> FALSE, reason |-> <<"N","o","t"," ","a"," ","g","i","t"," ","r","e","p","o","s","i","t","o","r","y">>]
    ELSE IF ~preCommit.exists THEN [installed |-> FALSE, reason |-> <<"N","o"," ","p","r","e","-","c","o","m","m","i","t"," ","h","o","o","k"," ","f","o","u","n","d">>]
    ELSE IF IsOurHook(preCommit.content) THEN [installed |-> TRUE, reason |-> <<"I","n","s","t","a","l","l","e","d">>]
    ELSE [installed |-> FALSE, reason |-> <<"D","i","f","f","e","r","e","n","t"," ","h","o","o","k"," ","e","x","i","s","t","s">>]

MsgFailedInstall == <<"F","a","i","l","e","d"," ","t","o"," ","i","n","s","t","a","l","l"," ","h","o","o","k","s",":"," ">>
MsgFailedUninstall == <<"F","a","i","l","e","d"," ","t","o"," ","u","n","i","n","s","t","a","l","l"," ","h","o","o","k","s",":"," ">>

\* installHooks that writes the template whatever hook exists
installHooks_IgnoresExisting(force) ==
    IF ~gitDir
    THEN [result |-> Threw(MsgFailedInstall \o <<"N","o","t"," ","a"," ","g","i","t"," ","r","e","p","o","s","i","t","o","r","y","."," ","R","u","n"," ","\"","g","i","t"," ","i","n","i","t","\""," ","f","i","r","s","t",".">>),
          hooksDir |-> hooksDir, preCommit |-> preCommit]
    ELSE [result |-> Returned(<<"H","o","o","k"," ","i","n","s","t","a","l","l","e","d"," ","s","u","c","c","e","s","s","f","u","l","l","y">>),
          hooksDir |-> TRUE, preCommit |-> HookFile(HookTemplate, "755")]

\* installHooks(targetDir, { force }): what it returns or throws, and
\* .git/hooks and the hook file after it
installHooks(force) ==
    IF ~gitDir
    THEN [result |-> Threw(MsgFailedInstall \o <<"N","o","t"," ","a"," ","g","i","t"," ","r","e","p","o","s","i","t","o","r","y","."," ","R","u","n"," ","\"","g","i","t"," ","i","n","i","t","\""," ","f","i","r","s","t",".">>),
          hooksDir |-> hooksDir, preCommit |-> preCommit]
    ELSE IF preCommit.exists /\ ~force
    THEN IF IsOurHook(preCommit.content)
         THEN [result |-> Returned(<<"H","o","o","k"," ","a","l","r","e","a","d","y"," ","i","n","s","t","a","l","l","e","d">>),
               hooksDir |-> TRUE, preCommit |-> preCommit]
         ELSE [result |-> Threw(MsgFailedInstall \o <<"A"," ","d","i","f","f","e","r","e","n","t"," ","p","r","e","-","c","o","m","m","i","t"," ","h","o","o","k"," ","a","l","r","e","a","d","y"," ","e","x","i","s","t","s","."," ","U","s","e"," ","-","-","f","o","r","c","e"," ","t","o"," ","o","v","e","r","w","r","i","t","e",".">>),
               hooksDir |-> TRUE, preCommit |-> preCommit]
    ELSE [result |-> Returned(<<"H","o","o","k"," ","i","n","s","t","a","l","l","e","d"," ","s","u","c","c","e","s","s","f","u","l","l","y">>),
          hooksDir |-> TRUE, preCommit |-> HookFile(HookTemplate, "755")]

\* uninstallHooks that reports the removal and leaves the hook file
uninstallHooks_LeavesFile ==
    IF ~gitDir
    THEN [result |-> Threw(MsgFailedUninstall \o <<"N","o","t"," ","a"," ","g","i","t"," ","r","e","p","o","s","i","t","o","r","y">>), preCommit |-> preCommit]
    ELSE IF ~preCommit.exists
    THEN [result |-> Returned(<<"N","o"," ","p","r","e","-","c","o","m","m","i","t"," ","h","o","o","k"," ","f","o","u","n","d"," ","t","o"," ","r","e","m","o","v","e">>), preCommit |-> preCommit]
    ELSE IF ~IsOurHook(preCommit.content)
    THEN [result |-> Threw(MsgFailedUninstall \o <<"P","r","e","-","c","o","m","m","i","t"," ","h","o","o","k"," ","e","x","i","s","t","s"," ","b","u","t"," ","w","a","s"," ","n","o","t"," ","i","n","s","t","a","l","l","e","d"," ","b","y"," ","s","e","c","u","r","e","-","c","o","m","m","i","t","."," ","R","e","m","o","v","e"," ","m","a","n","u","a","l","l","y"," ","i","f"," ","n","e","e","d","e","d",".">>),
          preCommit |-> preCommit]
    ELSE [result |-> Returned(<<"H","o","o","k"," ","r","e","m","o","v","e","d"," ","s","u","c","c","e","s","s","f","u","l","l","y">>), preCommit |-> preCommit]

\* uninstallHooks(targetDir): what it returns or throws, and the hook file
\* after it
uninstallHooks ==
    IF ~gitDir
    THEN [result |-> Threw(MsgFailedUninstall \o <<"N","o","t"," ","a"," ","g","i","t"," ","r","e","p","o","s","i","t","o","r","y">>), preCommit |-> preCommit]
    ELSE IF ~preCommit.exists
    THEN [result |-> Returned(<<"N","o"," ","p","r","e","-","c","o","m","m","i","t"," ","h","o","o","k"," ","f","o","u","n","d"," ","t","o"," ","r","e","m","o","v","e">>), preCommit |-> preCommit]
    ELSE IF ~IsOurHook(preCommit.content)
    THEN [result |-> Threw(MsgFailedUninstall \o <<"P","r","e","-","c","o","m","m","i","t"," ","h","o","o","k"," ","e","x","i","s","t","s"," ","b","u","t"," ","w","a","s"," ","n","o","t"," ","i","n","s","t","a","l","l","e","d"," ","b","y"," ","s","e","c","u","r","e","-","c","o","m","m","i","t","."," ","R","e","m","o","v","e"," ","m","a","n","u","a","l","l","y"," ","i","f"," ","n","e","e","d","e","d",".">>),
          preCommit |-> preCommit]
    ELSE [result |-> Returned(<<"H","o","o","k"," ","r","e","m","o","v","e","d"," ","s","u","c","c","e","s","s","f","u","l","l","y">>), preCommit |-> NoHook]

(***************************************************************************)
(* bin/cli.js with the hook commands (unnamed/part_002): init, install,    *)
(* uninstall.                                                              *)
(***************************************************************************)
Banner == <<"{shield}">> \o <<" "," ","S","e","c","u","r","e"," ","P","r","o","j","e","c","t"," ","-"," ","P","r","o","t","e","c","t","i","n","g"," ","y","o","u","r"," ","s","e","c","r","e","t","s","\n">>

\* the install command: what it prints on stdout and stderr, its exit
\* status, the installHooks call it makes if any, and the files after it
InstallCommand(force) ==
    LET hookStatus == checkHookInstallation
        call == installHooks(force)
        head1 == <<Banner, <<"{hook}">> \o <<" ","I","n","s","t","a","l","l","i","n","g"," ","g","i","t"," ","p","r","e","-","c","o","m","m","i","t"," ","h","o","o","k","s",".",".",".","\n">>>>
        already == <<<<"{check}">> \o <<" ","G","i","t"," ","h","o","o","k","s"," ","a","r","e"," ","a","l","r","e","a","d","y"," ","i","n","s","t","a","l","l","e","d">>,
                     <<"{page}">> \o <<" ","H","o","o","k"," ","f","i","l","e",":"," ">> \o HookPathText>>
        intro == IF hookStatus.installed
                 THEN already \o <<<<"{cycle}">> \o <<" ","R","e","i","n","s","t","a","l","l","i","n","g"," ","d","u","e"," ","t","o"," ","-","-","f","o","r","c","e"," ","f","l","a","g",".",".",".">>>>
                 ELSE <<>>
    IN  IF hookStatus.installed /\ ~force
        THEN [stdout |-> head1 \o already \o <<<<"\n">> \o <<"{bulb}">> \o <<" ","U","s","e"," ","-","-","f","o","r","c","e"," ","t","o"," ","r","e","i","n","s","t","a","l","l">>>>,
              stderr |-> <<>>, exit |-> 0, result |-> NoHooksResult,
              hooksDir |-> hooksDir, preCommit |-> preCommit]
        ELSE IF call.result.kind = "threw"
        THEN [stdout |-> head1 \o intro,
              stderr |-> <<<<"{cross}">> \o <<" ","F","a","i","l","e","d"," ","t","o"," ","i","n","s","t","a","l","l"," ","h","o","o","k","s",":"," ">> \o call.result.message>>,
              exit |-> 1, result |-> call.result,
              hooksDir |-> call.hooksDir, preCommit |-> call.preCommit]
        ELSE [stdout |-> head1 \o intro
                         \o <<<<"{check}">> \o <<" ","G","i","t"," ","h","o","o","k","s"," ","i","n","s","t","a","l","l","e","d"," ","s","u","c","c","e","s","s","f","u","l","l","y","!">>,
                              <<"{page}">> \o <<" ","H","o","o","k"," ","i","n","s","t","a","l","l","e","d"," ","a","t",":"," ">> \o HookPathText,
                              <<"\n">> \o <<"{shield}">> \o <<" "," ","Y","o","u","r"," ","r","e","p","o","s","i","t","o","r","y"," ","i","s"," ","n","o","w"," ","p","r","o","t","e","c","t","e","d"," ","a","g","a","i","n","s","t"," ","s","e","c","r","e","t"," ","c","o","m","m","i","t","s">>,
                              <<"{bulb}">> \o <<" ","T","e","s","t"," ","i","t"," ","b","y"," ","t","r","y","i","n","g"," ","t","o"," ","c","o","m","m","i","t"," ","a"," ","f","i","l","e"," ","w","i","t","h"," ","a","n"," ","A","P","I"," ","k","e","y">>>>,
              stderr |-> <<>>, exit |-> 0, result |-> call.result,
              hooksDir |-> call.hooksDir, preCommit |-> call.preCommit]

\* the uninstall command
UninstallCommand ==
    LET hookStatus == checkHookInstallation
        call == uninstallHooks
        head1 == <<Banner, <<"{trash}">> \o <<" "," ","U","n","i","n","s","t","a","l","l","i","n","g"," ","g","i","t"," ","p","r","e","-","c","o","m","m","i","t"," ","h","o","o","k","s",".",".",".","\n">>>>
    IN  IF ~hookStatus.installed
        THEN [stdout |-> head1 \o <<<<"{info}">> \o <<" "," ","N","o"," ","g","i","t"," ","h","o","o","k","s"," ","f","o","u","n","d"," ","t","o"," ","u","n","i","n","s","t","a","l","l">>>>,
              stderr |-> <<>>, exit |-> 0, result |-> NoHooksResult, preCommit |-> preCommit]
        ELSE IF call.result.kind = "threw"
        THEN [stdout |-> head1,
              stderr |-> <<<<"{cross}">> \o <<" ","F","a","i","l","e","d"," ","t","o"," ","u","n","i","n","s","t","a","l","l"," ","h","o","o","k","s",":"," ">> \o call.result.message>>,
              exit |-> 1, result |-> call.result, preCommit |-> call.preCommit]
        ELSE [stdout |-> head1 \o <<<<"{check}">> \o <<" ","G","i","t"," ","h","o","o","k","s"," ","u","n","i","n","s","t","a","l","l","e","d"," ","s","u","c","c","e","s","s","f","u","l","l","y">>,
                                    <<"{info}">> \o <<" "," ","Y","o","u","r"," ","r","e","p","o","s","i","t","o","r","y"," ","n","o"," ","l","o","n","g","e","r"," ","h","a","s"," ","a","u","t","o","m","a","t","i","c"," ","s","e","c","r","e","t"," ","p","r","o","t","e","c","t","i","o","n">>>>,
              stderr |-> <<>>, exit |-> 0, result |-> call.result, preCommit |-> call.preCommit]

\* the failures of the fs calls of updateGitignore: none, the read of
\* .gitignore, the write of .gitignore.tmp or its rename
IoOutcomes == {"ok", "readFails", "writeFails"}

MsgFailedRead == <<"F","a","i","l","e","d"," ","t","o"," ","r","e","a","d"," ",".","g","i","t","i","g","n","o","r","e",":"," ">> \o <<"{error.message}">>
MsgFailedWrite == <<"F","a","i","l","e","d"," ","t","o"," ","u","p","d","a","t","e"," ",".","g","i","t","i","g","n","o","r","e",":"," ","F","a","i","l","e","d"," ","t","o"," ","w","r","i","t","e"," ",".","g","i","t","i","g","n","o","r","e",":"," ">> \o <<"{error.message}">>

\* what updateGitignore throws under an io outcome, <<>> when it returns
UpdateGitignoreError(file, result, io) ==
    IF io = "readFails" /\ file.exists THEN MsgFailedRead
    ELSE IF io = "writeFails" /\ result.file # file THEN MsgFailedWrite
    ELSE <<>>

\* the lines the init command prints for the result of updateGitignore
InitGitignoreLines(result) ==
    IF result.updated
    THEN <<<<"{check}">> \o <<" ","U","p","d","a","t","e","d"," ",".","g","i","t","i","g","n","o","r","e"," ","w","i","t","h"," ">> \o ToDecimal(Len(result.added)) \o <<" ","n","e","w"," ","p","a","t","t","e","r","n","(","s",")">>>>
            \o [k \in 1..Len(result.added) |-> <<" "," "," ","+"," ">> \o result.added[k]]
            \o (IF Len(result.skipped) > 0
                THEN <<<<"\n">> \o <<"{skip}">> \o <<" "," ","S","k","i","p","p","e","d"," ">> \o ToDecimal(Len(result.skipped)) \o <<" ","e","x","i","s","t","i","n","g"," ","p","a","t","t","e","r","n","(","s",")">>>>
                ELSE <<>>)
    ELSE <<<<"{check}">> \o <<" ",".","g","i","t","i","g","n","o","r","e"," ","a","l","r","e","a","d","y"," ","p","r","o","p","e","r","l","y"," ","c","o","n","f","i","g","u","r","e","d","!">>>>

\* the init command from the result of updateGitignore on
InitWith(io, frameworks, result) ==
    LET head1 == <<Banner, <<"{package}">> \o <<" ","S","e","t","t","i","n","g"," ","u","p"," ","s","e","c","u","r","i","t","y"," ","f","o","r",":"," ">> \o JoinWith(frameworks, <<",", " ">>) \o <<"\n">>>>
        error == UpdateGitignoreError(dotGitignore, result, io)
        hookStatus == checkHookInstallation
        call == installHooks(FALSE)
    IN  IF error # <<>>
        THEN [stdout |-> head1,
              stderr |-> <<<<"{cross}">> \o <<" ","F","a","i","l","e","d"," ","t","o"," ","u","p","d","a","t","e"," ",".","g","i","t","i","g","n","o","r","e",":"," ">> \o error>>,
              exit |-> 1, result |-> NoHooksResult, gitignore |-> dotGitignore,
              hooksDir |-> hooksDir, preCommit |-> preCommit]
        ELSE IF hookStatus.installed
        THEN [stdout |-> head1 \o InitGitignoreLines(result)
                         \o <<<<"\n">> \o <<"{check}">> \o <<" ","G","i","t"," ","h","o","o","k","s"," ","a","l","r","e","a","d","y"," ","i","n","s","t","a","l","l","e","d">>>>,
              stderr |-> <<>>, exit |-> 0, result |-> NoHooksResult, gitignore |-> result.file,
              hooksDir |-> hooksDir, preCommit |-> preCommit]
        ELSE IF call.result.kind = "threw"
        THEN [stdout |-> head1 \o InitGitignoreLines(result)
                         \o <<<<"\n">> \o <<"{hook}">> \o <<" ","I","n","s","t","a","l","l","i","n","g"," ","g","i","t"," ","h","o","o","k","s",".",".",".">>,
                              <<"{bulb}">> \o <<" ","Y","o","u"," ","c","a","n"," ","t","r","y"," ","r","u","n","n","i","n","g"," ">> \o <<"{backtick}">> \o <<"n","p","x"," ","s","e","c","u","r","e","-","c","o","m","m","i","t"," ","i","n","s","t","a","l","l">> \o <<"{backtick}">> \o <<" ","s","e","p","a","r","a","t","e","l","y">>>>,
              stderr |-> <<<<"{warn}">> \o <<" "," ","F","a","i","l","e","d"," ","t","o"," ","i","n","s","t","a","l","l"," ","h","o","o","k","s",":"," ">> \o call.result.message>>,
              exit |-> 0, result |-> call.result, gitignore |-> result.file,
              hooksDir |-> call.hooksDir, preCommit |-> call.preCommit]
        ELSE [stdout |-> head1 \o InitGitignoreLines(result)
                         \o <<<<"\n">> \o <<"{hook}">> \o <<" ","I","n","s","t","a","l","l","i","n","g"," ","g","i","t"," ","h","o","o","k","s",".",".",".">>,
                              <<"{check}">> \o <<" ","G","i","t"," ","h","o","o","k","s"," ","i","n","s","t","a","l","l","e","d"," ","s","u","c","c","e","s","s","f","u","l","l","y">>,
                              <<"{shield}">> \o <<" "," ","Y","o","u","r"," ","r","e","p","o","s","i","t","o","r","y"," ","i","s"," ","n","o","w"," ","p","r","o","t","e","c","t","e","d"," ","a","g","a","i","n","s","t"," ","s","e","c","r","e","t"," ","c","o","m","m","i","t","s">>>>,
              stderr |-> <<>>, exit |-> 0, result |-> call.result, gitignore |-> result.file,
              hooksDir |-> call.hooksDir, preCommit |-> call.preCommit]

\* the init command: what it prints on stdout and stderr, its exit status,
\* the installHooks call it makes if any, and the files after it.  The
\* frameworks and the result of updateGitignore are bound once.
InitCommand(io) ==
    CHOOSE outcome \in
        {InitWith(io, ctx[1], ctx[2]) :
            ctx \in {<<frameworks, updateGitignore(frameworks, dotGitignore)>> :
                        frameworks \in {detectFramework}}} : TRUE

(***************************************************************************)
(* git: `git status --porcelain` and `git rm --cached`, for a tree of      *)
(* files of the project root.                                              *)
(***************************************************************************)
\* first column of a status line: the index against HEAD.  status.renames
\* follows diff.renames, which detects renames but no copies: a further
\* added path with the content of a deleted one is an addition
StatusX(p) ==
    LET s == DiffStatus(p) IN
    IF s = "=" THEN " " ELSE IF s = "C" THEN "A" ELSE s

\* second column: the working tree against the index
StatusY(p) ==
    IF index[p] = Absent THEN " "
    ELSE IF fsys[p].type = "none" THEN "D"
    ELSE IF fsys[p].type = "file" /\ Blob(fsys[p].content) = index[p] THEN " "
    ELSE "M"

\* the deleted path a renamed path is the rename of: the first in path order
RenameSource(p) ==
    LET sources == {q \in PathSet : RawStatus(q) = "D" /\ head[q] = index[p]} IN
    CHOOSE q \in sources : \A r \in sources : PathPos(q) <= PathPos(r)

\* a deleted path that a status line reports as the source of a rename
IsRenameSource(q) ==
    /\ RawStatus(q) = "D"
    /\ \E p \in PathSet : RawStatus(p) = "A" /\ index[p] = head[q]
    /\ \A r \in PathSet : RawStatus(r) = "D" /\ head[r] = head[q] => PathPos(q) <= PathPos(r)

\* the status line of a path with changes: XY, a space, the path, and for a
\* rename the source, an arrow and the path
StatusLine(p) ==
    <<StatusX(p), StatusY(p), " ">>
        \o (IF StatusX(p) = "R" THEN JoinPath(RenameSource(p)) \o <<" ","-",">"," ">> ELSE <<>>)
        \o JoinPath(p)

\* the output of `git status --porcelain` as its lines: the changed paths
\* in path order, then the untracked files
GitStatusLines ==
    LET RECURSIVE changed(_)
        changed(k) ==
            IF k > Len(AllPaths) THEN <<>>
            ELSE (IF (StatusX(AllPaths[k]) # " " \/ StatusY(AllPaths[k]) # " ")
                      /\ ~IsRenameSource(AllPaths[k])
                  THEN <<StatusLine(AllPaths[k])>> ELSE <<>>) \o changed(k + 1)
        RECURSIVE untracked(_)
        untracked(k) ==
            IF k > Len(AllPaths) THEN <<>>
            ELSE (IF index[AllPaths[k]] = Absent /\ fsys[AllPaths[k]].type = "file"
                  THEN <<<<"?", "?", " ">> \o JoinPath(AllPaths[k])>> ELSE <<>>) \o untracked(k + 1)
    IN  changed(1) \o untracked(1)

\* `git rm --cached <path>` exits 0: the path is in the index, and the file,
\* if it is there, does not differ from the index while the index differs
\* from HEAD
GitRmCachedSucceeds(p) ==
    /\ index[p] # Absent
    /\ ~(/\ fsys[p].type # "none"
         /\ ~(fsys[p].type = "file" /\ Blob(fsys[p].content) = index[p])
         /\ index[p] # head[p])

(***************************************************************************)
(* lib/cleaner.js.                                                         *)
(***************************************************************************)
\* isGitRepository
isGitRepository == gitDir

\* no status entry of a file
CleanStatus == [staged |-> FALSE, unstaged |-> FALSE, untracked |-> FALSE]

\* the entry statusLines.forEach sets for a status line
StatusOfLine(line) ==
    [staged |-> line[1] # " " /\ line[1] # "?",
     unstaged |-> line[2] # " " /\ line[2] # "?",
     untracked |-> SubSeq(line, 1, 2) = <<"?", "?">>]

\* the entry of a file in the status map after statusLines.forEach and
\* files.forEach
StatusInLines(file, statusLines) ==
    LET found == {n \in 1..Len(statusLines) :
                     SubSeq(statusLines[n], 4, Len(statusLines[n])) = JoinPath(file)}
    IN  IF found = {} THEN CleanStatus
        ELSE StatusOfLine(statusLines[CHOOSE n \in found : \A m \in found : m <= n])

\* getFileStatus(files): the status map, on the files.  statusOk: `git
\* status --porcelain` succeeds; its lines are bound once
getFileStatus(files, statusOk) ==
    IF ~statusOk
    THEN [file \in {files[k] : k \in 1..Len(files)} |->
             [staged |-> FALSE, unstaged |-> TRUE, untracked |-> FALSE]]
    ELSE CHOOSE statusMap \in
            {[file \in {files[k] : k \in 1..Len(files)} |-> StatusInLines(file, statusLines)] :
                statusLines \in {GitStatusLines}} : TRUE

\* no failure of the git process from outside git
NoFault == [file |-> <<>>, kind |-> "none"]
\* `git rm --cached` on one file ends with a non-zero code (kind "exit",
\* say for index.lock), or cannot be spawned (kind "spawn")
Fault(file, kind) == [file |-> file, kind |-> kind]

\* how removeFileFromTracking(filePath) ends: "ok", "exit", "spawn"
removeFileFromTracking(filePath, fault) ==
    IF fault.file = filePath THEN fault.kind
    ELSE IF GitRmCachedSucceeds(filePath) THEN "ok"
    ELSE "exit"

\* the error of a failed entry
RemoveError(kind) ==
    IF kind = "spawn" THEN <<"F","a","i","l","e","d"," ","t","o"," ","s","p","a","w","n"," ","g","i","t"," ","p","r","o","c","e","s","s",":"," ">> \o <<"{error.message}">>
    ELSE <<"{stderr}">>

SuggestionText == <<"c","o","m","m","i","t"," ","c","h","a","n","g","e","s"," ","f","i","r","s","t"," ","o","r"," ","u","s","e"," ","-","-","f","o","r","c","e">>

\* the reason of a problematic file, where unstaged changes are no problem
ProblemReason_StagedOnly(status, force) ==
    IF status.staged /\ ~force THEN <<"h","a","s"," ","s","t","a","g","e","d"," ","c","h","a","n","g","e","s">> ELSE <<>>

\* the reason of a problematic file, '' for a file to process
ProblemReason(status, force) ==
    IF status.staged /\ ~force THEN <<"h","a","s"," ","s","t","a","g","e","d"," ","c","h","a","n","g","e","s">>
    ELSE IF status.unstaged /\ ~force THEN <<"h","a","s"," ","u","n","s","t","a","g","e","d"," ","c","h","a","n","g","e","s">>
    ELSE <<>>

\* no removeTrackedSensitiveFiles call has been made; rmCalls: the files
\* `git rm --cached` was run on by the call, in order
NoCleanResult ==
    [outcome |-> "none", success |-> TRUE, removed |-> <<>>, skipped |-> <<>>,
     failed |-> <<>>, warnings |-> <<>>, message |-> <<>>, rmCalls |-> <<>>]

\* the files the removal loop runs on, were it also run on a dry run
RmCalls_AlsoOnDryRun(dryRun, filesToProcess) == filesToProcess

\* the files the removal loop runs removeFileFromTracking on
RmCalls(dryRun, filesToProcess) == IF dryRun THEN <<>> ELSE filesToProcess

\* results.removed
RemovedEntries(dryRun, filesToProcess, fault) ==
    IF dryRun
    THEN [k \in 1..Len(filesToProcess) |->
             [file |-> filesToProcess[k], status |-> <<"w","o","u","l","d"," ","r","e","m","o","v","e">>]]
    ELSE LET done == SelectSeq(filesToProcess,
                         LAMBDA file : removeFileFromTracking(file, fault) = "ok")
         IN  [k \in 1..Len(done) |-> [file |-> done[k], status |-> <<"r","e","m","o","v","e","d"," ","f","r","o","m"," ","t","r","a","c","k","i","n","g">>]]

\* results.failed
FailedEntries(dryRun, filesToProcess, fault) ==
    IF dryRun THEN <<>>
    ELSE LET bad == SelectSeq(filesToProcess,
                        LAMBDA file : removeFileFromTracking(file, fault) # "ok")
         IN  [k \in 1..Len(bad) |->
                 [file |-> bad[k], error |-> RemoveError(removeFileFromTracking(bad[k], fault))]]

\* results.skipped
SkippedEntries(problematicFiles, fileStatuses, force) ==
    [k \in 1..Len(problematicFiles) |->
        [file |-> problematicFiles[k],
         reason |-> ProblemReason(fileStatuses[problematicFiles[k]], force)
                       \o <<" ","-"," ">> \o SuggestionText]]

\* results.success that no failure clears
CleanSuccess_Always(failed) == TRUE

\* results.success: cleared with every push to results.failed
CleanSuccess(failed) == Len(failed) = 0

\* removeTrackedSensitiveFiles from the tracked files and their statuses
\* on.  The removal of a file does not depend on the removal of another, so
\* the loop over filesToProcess is a selection
removeTrackedWith(trackedFiles, fileStatuses, dryRun, force, fault) ==
    LET filesToProcess ==
            SelectSeq(trackedFiles, LAMBDA file : ProblemReason(fileStatuses[file], force) = <<>>)
        problematicFiles ==
            SelectSeq(trackedFiles, LAMBDA file : ProblemReason(fileStatuses[file], force) # <<>>)
    IN  [outcome |-> "returned",
         success |-> CleanSuccess(FailedEntries(dryRun, filesToProcess, fault)),
         removed |-> RemovedEntries(dryRun, filesToProcess, fault),
         skipped |-> SkippedEntries(problematicFiles, fileStatuses, force),
         failed |-> FailedEntries(dryRun, filesToProcess, fault),
         warnings |-> IF Len(problematicFiles) > 0
                      THEN <<ToDecimal(Len(problematicFiles)) \o <<" ","f","i","l","e","s"," ","h","a","v","e"," ","u","n","c","o","m","m","i","t","t","e","d"," ","c","h","a","n","g","e","s">>,
                             <<"U","s","e"," ","-","-","f","o","r","c","e"," ","t","o"," ","r","e","m","o","v","e"," ","f","i","l","e","s"," ","w","i","t","h"," ","u","n","c","o","m","m","i","t","t","e","d"," ","c","h","a","n","g","e","s">>>>
                      ELSE <<>>,
         message |-> IF dryRun
                     THEN <<"D","r","y"," ","r","u","n",":"," ","w","o","u","l","d"," ","r","e","m","o","v","e"," ">> \o ToDecimal(Len(filesToProcess)) \o <<" ","f","i","l","e","(","s",")">>
                     ELSE <<>>,
         rmCalls |-> RmCalls(dryRun, filesToProcess)]

\* removeTrackedSensitiveFiles('.', { dryRun, force }): what it returns or
\* throws.  The tracked files and their statuses are bound once
removeTrackedSensitiveFiles(dryRun, force, statusOk, fault) ==
    IF ~isGitRepository
    THEN [NoCleanResult EXCEPT !.outcome = "threw", !.message = <<"N","o","t"," ","a"," ","g","i","t"," ","r","e","p","o","s","i","t","o","r","y">>]
    ELSE IF Len(findTrackedSensitiveFiles) = 0
    THEN [NoCleanResult EXCEPT !.outcome = "returned",
                               !.message = <<"N","o"," ","t","r","a","c","k","e","d"," ","s","e","n","s","i","t","i","v","e"," ","f","i","l","e","s"," ","f","o","u","n","d">>]
    ELSE CHOOSE results \in
            {removeTrackedWith(ctx[1], ctx[2], dryRun, force, fault) :
                ctx \in {<<trackedFiles, getFileStatus(trackedFiles, statusOk)>> :
                            trackedFiles \in {findTrackedSensitiveFiles}}} : TRUE

\* the options of a call, whether its `git status` succeeds, and the
\* failure of `git rm --cached` from outside git
CleanCall(dryRun, force, statusOk, fault) ==
    [dryRun |-> dryRun, force |-> force, statusOk |-> statusOk, fault |-> fault]
NoCleanCall == CleanCall(FALSE, FALSE, TRUE, NoFault)

\* the index after the `git rm --cached` runs of a call
IndexAfterClean(results) ==
    [p \in PathSet |->
        IF \E k \in 1..Len(results.removed) :
               results.removed[k].file = p /\ results.removed[k].status = <<"r","e","m","o","v","e","d"," ","f","r","o","m"," ","t","r","a","c","k","i","n","g">>
        THEN Absent ELSE index[p]]

\* validateCleanupSafety('.'): safe, issues, warnings
validateCleanupSafety(statusOk) ==
    IF ~isGitRepository
    THEN [safe |-> FALSE, issues |-> <<<<"N","o","t"," ","a"," ","g","i","t"," ","r","e","p","o","s","i","t","o","r","y">>>>, warnings |-> <<>>]
    ELSE IF Len(findTrackedSensitiveFiles) = 0
    THEN [safe |-> TRUE, issues |-> <<>>, warnings |-> <<>>]
    ELSE CHOOSE safety \in
            {[safe |-> TRUE,
              issues |-> <<>>,
              warnings |->
                  LET changed == SelectSeq(ctx[1],
                                     LAMBDA file : ctx[2][file].staged \/ ctx[2][file].unstaged)
                      missing == SelectSeq(ctx[1], LAMBDA file : ~ExistsSync(file))
                  IN  [k \in 1..Len(changed) |-> JoinPath(changed[k]) \o <<" ","h","a","s"," ","u","n","c","o","m","m","i","t","t","e","d"," ","c","h","a","n","g","e","s">>]
                      \o (IF Len(changed) > 0
                          THEN <<<<"C","o","n","s","i","d","e","r"," ","c","o","m","m","i","t","t","i","n","g"," ","c","h","a","n","g","e","s"," ","b","e","f","o","r","e"," ","c","l","e","a","n","u","p">>>> ELSE <<>>)
                      \o [k \in 1..Len(missing) |->
                             JoinPath(missing[k]) \o <<" ","i","s"," ","t","r","a","c","k","e","d"," ","b","u","t"," ","d","o","e","s","n","'","t"," ","e","x","i","s","t"," ","o","n"," ","d","i","s","k">>]] :
                ctx \in {<<trackedFiles, getFileStatus(trackedFiles, statusOk)>> :
                            trackedFiles \in {findTrackedSensitiveFiles}}} : TRUE

\* the lines the clean command prints for a result
CleanResultLines(result, dryRun) ==
    IF Len(result.removed) = 0 /\ Len(result.skipped) = 0 /\ Len(result.failed) = 0
    THEN <<<<"{check}">> \o <<" ","N","o"," ","t","r","a","c","k","e","d"," ","s","e","n","s","i","t","i","v","e"," ","f","i","l","e","s"," ","f","o","u","n","d">>>>
    ELSE (IF Len(result.removed) > 0
          THEN <<(IF dryRun THEN <<"{magnifier}">> \o <<" ","W","o","u","l","d"," ","r","e","m","o","v","e">> ELSE <<"{check}">> \o <<" ","R","e","m","o","v","e","d">>)
                    \o <<" ">> \o ToDecimal(Len(result.removed)) \o <<" ","f","i","l","e","(","s",")",":">>>>
               \o [k \in 1..Len(result.removed) |->
                      <<" "," "," ","-"," ">> \o JoinPath(result.removed[k].file) \o <<" ","(">>
                          \o result.removed[k].status \o <<")">>]
               \o <<<<>>>>
          ELSE <<>>)
         \o (IF Len(result.skipped) > 0
             THEN <<<<"{skip}">> \o <<" "," ","S","k","i","p","p","e","d"," ">> \o ToDecimal(Len(result.skipped)) \o <<" ","f","i","l","e","(","s",")",":">>>>
                  \o [k \in 1..Len(result.skipped) |->
                         <<" "," "," ","-"," ">> \o JoinPath(result.skipped[k].file) \o <<" ","(">>
                             \o result.skipped[k].reason \o <<")">>]
                  \o <<<<>>>>
             ELSE <<>>)
         \o (IF Len(result.failed) > 0
             THEN <<<<"{cross}">> \o <<" ","F","a","i","l","e","d"," ","t","o"," ","r","e","m","o","v","e"," ">> \o ToDecimal(Len(result.failed)) \o <<" ","f","i","l","e","(","s",")",":">>>>
                  \o [k \in 1..Len(result.failed) |->
                         <<" "," "," ","-"," ">> \o JoinPath(result.failed[k].file) \o <<":"," ">>
                             \o result.failed[k].error]
                  \o <<<<>>>>
             ELSE <<>>)
         \o (IF Len(result.warnings) > 0
             THEN [k \in 1..Len(result.warnings) |-> <<"{warn}">> \o <<" "," ">> \o result.warnings[k]] \o <<<<>>>>
             ELSE <<>>)
         \o (IF dryRun /\ Len(result.removed) > 0
             THEN <<<<"{bulb}">> \o <<" ","R","u","n"," ">> \o <<"{backtick}">> \o <<"s","e","c","u","r","e","-","p","r","o","j","e","c","t"," ","c","l","e","a","n">> \o <<"{backtick}">> \o <<" ","t","o"," ","a","c","t","u","a","l","l","y"," ","r","e","m","o","v","e"," ","t","h","e","s","e"," ","f","i","l","e","s">>>>
             ELSE IF ~dryRun /\ Len(result.removed) > 0
             THEN <<<<"{bulb}">> \o <<" ","F","i","l","e","s"," ","r","e","m","o","v","e","d"," ","f","r","o","m"," ","g","i","t"," ","t","r","a","c","k","i","n","g"," ","b","u","t"," ","k","e","p","t"," ","o","n"," ","d","i","s","k">>,
                    <<"{bulb}">> \o <<" ","A","d","d"," ","t","h","e","s","e"," ","p","a","t","t","e","r","n","s"," ","t","o"," ",".","g","i","t","i","g","n","o","r","e"," ","t","o"," ","p","r","e","v","e","n","t"," ","r","e","-","t","r","a","c","k","i","n","g">>>>
             ELSE <<>>)

\* the clean command from the result of removeTrackedSensitiveFiles on:
\* what it prints on stdout and stderr, and its exit status
CleanCommand(safety, result, dryRun, force) ==
    LET head1 == <<Banner, <<"{broom}">> \o <<" ","C","l","e","a","n","i","n","g"," ","t","r","a","c","k","e","d"," ","s","e","n","s","i","t","i","v","e"," ","f","i","l","e","s",".",".",".","\n">>>> IN
    IF ~safety.safe
    THEN [stdout |-> head1,
          stderr |-> <<<<"{cross}">> \o <<" ","C","a","n","n","o","t"," ","p","r","o","c","e","e","d"," ","w","i","t","h"," ","c","l","e","a","n","u","p",":">>>>
                        \o [k \in 1..Len(safety.issues) |-> <<" "," "," ">> \o safety.issues[k]],
          exit |-> 1]
    ELSE [stdout |-> head1
                     \o (IF Len(safety.warnings) > 0 /\ ~force
                         THEN <<<<"{warn}">> \o <<" "," ","W","a","r","n","i","n","g","s",":">>>>
                              \o [k \in 1..Len(safety.warnings) |-> <<" "," "," ">> \o safety.warnings[k]]
                              \o <<<<>>>>
                         ELSE <<>>)
                     \o CleanResultLines(result, dryRun),
          stderr |-> <<>>,
          exit |-> 0]

(***************************************************************************)
(* Inputs.                                                                 *)
(***************************************************************************)
\* the lines of test-secrets.js
LineStripeFixture == <<" "," "," "," ","s","t","r","i","p","e",":"," ","\"","s","k","_","l","i","v","e","_","a","b","c","d","e","f","g","h","i","j","k","l","m","n","o","p","q","r","s","t","u","v","w","x","y","z","1","2","3","4","5","6","7","8","9","0","\"",",">>
LineAwsFixture == <<" "," "," "," ","a","w","s",":"," ","\"","A","K","I","A","I","O","S","F","O","D","N","N","7","E","X","A","M","P","L","E","\"",",">>
LineDatabaseFixture == <<" "," "," "," ","d","a","t","a","b","a","s","e",":"," ","\"","p","o","s","t","g","r","e","s",":","/","/","u","s","e","r",":","p","a","s","s","w","o","r","d","@","l","o","c","a","l","h","o","s","t",":","5","4","3","2","/","m","y","d","b","\"",",">>
LineOpenaiFixture == <<" "," "," "," ","o","p","e","n","a","i",":"," ","\"","s","k","-","a","b","c","d","e","f","g","h","i","j","k","l","m","n","o","p","q","r","s","t","u","v","w","x","y","z","1","2","3","4","5","6","7","8","9","0","a","b","c","d","e","f","g","h","i","j","k","l","\"",",">>
LineGithubFixture == <<" "," "," "," ","g","i","t","h","u","b",":"," ","\"","g","h","p","_","a","b","c","d","e","f","g","h","i","j","k","l","m","n","o","p","q","r","s","t","u","v","w","x","y","z","1","2","3","4","5","6","7","8","9","0","\"",",">>
LineStripeTestFixture == <<" "," "," "," ","s","t","r","i","p","e","_","t","e","s","t",":"," ","\"","s","k","_","t","e","s","t","_","a","b","c","d","e","f","g","h","i","j","k","l","m","n","o","p","q","r","s","t","u","v","w","x","y","z","1","2","3","4","5","6","7","8","9","0","\"",",">>
LineGoogleFixture == <<" "," "," "," ","g","o","o","g","l","e",":"," ","\"","A","I","z","a","S","y","A","b","c","d","e","f","g","h","i","j","k","l","m","n","o","p","q","r","s","t","u","v","w","x","y","z","1","2","3","4","5","\"",",">>
LineClean == <<"c","o","n","s","o","l","e",".","l","o","g","(","\"","T","e","s","t","i","n","g"," ","s","e","c","r","e","t","s"," ","d","e","t","e","c","t","i","o","n",".",".",".","\"",")",";">>
\* further lines
LineStripeScenario == <<"c","o","n","s","t"," ","k","e","y"," ","="," ","'","s","k","_","l","i","v","e","_","a","b","c","d","e","f","g","h","i","j","k","l","m","n","o","p","q","r","s","t","u","v","w","x","y","z","1","2","3","4","'">>
LineDbScenario == <<"d","b"," ","="," ","\"","p","o","s","t","g","r","e","s",":","/","/","u",":","p","@","h","o","s","t","/","d","b","\"">>
LineShortDb == <<"u","r","l"," ","="," ","m","y","s","q","l",":","/","/","d","b">>
LineGoogleHyphen == <<"k","e","y"," ","="," ","A","I","z","a","S","y","A","-","c","d","e","f","g","h","i","j","k","l","m","n","o","p","q","r","s","t","u","v","w","x","y","z","_","1","2","3","4","-","6">>
LineGoogleUnderscore == <<"k","e","y"," ","="," ","A","I","z","a","S","y","A","_","c","d","e","f","g","h","i","j","k","l","m","n","o","p","q","r","s","t","u","v","w","x","y","z","_","1","2","3","4","_","6">>
LineJwt == <<"\"","j","w","t","_","s","e","c","r","e","t","\"",":"," ","\"","0","1","2","3","4","5","6","7","8","9","a","b","c","d","e","f","0","1","2","3","4","5","6","7","8","9","a","b","c","d","e","f","\"">>
LineTwoKinds == <<"A","K","I","A","I","O","S","F","O","D","N","N","7","E","X","A","M","P","L","E"," ","m","o","n","g","o","d","b",":","/","/","h">>
LineTwoSame == <<"A","K","I","A","I","O","S","F","O","D","N","N","7","E","X","A","M","P","L","E",",","A","K","I","A","A","B","C","D","E","F","G","H","I","J","2","3","4","5","6","7">>
LineEmpty == <<>>

\* the one-line files
LinePool == {LineStripeFixture, LineAwsFixture, LineDatabaseFixture, LineOpenaiFixture,
             LineGithubFixture, LineStripeTestFixture, LineGoogleFixture, LineClean,
             LineStripeScenario, LineDbScenario, LineShortDb, LineGoogleHyphen,
             LineGoogleUnderscore, LineJwt, LineTwoKinds, LineTwoSame, LineEmpty}

\* the lines of the files of several lines
MultiLinePool == {LineEmpty, LineShortDb, LineJwt, LineTwoKinds}

\* the most lines of a file
MaxLines == 3

LF == <<"\n">>
CRLF == <<"\r", "\n">>

RECURSIVE JoinLines(_, _)
\* the content of a file from its lines and the separator after each line
\* but the last
JoinLines(lines, seps) ==
    IF Len(lines) = 1 THEN lines[1]
    ELSE lines[1] \o seps[1] \o JoinLines(Tail(lines), Tail(seps))

\* a file whose findings have the three severities: a database URL on line
\* 1, an OpenAI key on line 2, a Stripe test key on line 3
ContentMixed == JoinLines(<<LineShortDb, LineOpenaiFixture, LineStripeTestFixture>>, <<LF, LF>>)

\* the contents a file is written with
ContentPool ==
    LinePool \cup {ContentMixed}
    \cup UNION {{JoinLines(ls, ss) : ls \in [1..n -> MultiLinePool],
                                      ss \in [1..(n - 1) -> {LF, CRLF}]} : n \in 2..MaxLines}

\* the contents of the files of the repository model
CleanContent == LineClean
SecretContent == LineStripeScenario
RepoContents == {CleanContent, SecretContent}
\* the paths the repository model writes
RepoPaths == {<<NameEnv>>, <<NameAppJs>>}
\* the file the scanner model writes and scans
ScanPath == <<NameAppJs>>

(***************************************************************************)
(* State machine.                                                          *)
(***************************************************************************)
NoResults ==
    /\ findings = <<>>
    /\ stdout = <<>>
    /\ warnings = <<>>
    /\ exitStatus = "none"
    /\ staged_files = <<>>
    /\ hookFindings = <<>>
    /\ hookExit = "none"

ResetResults ==
    /\ cleanResult' = NoCleanResult
    /\ cleanCall' = NoCleanCall
    /\ ignoreResult' = NoIgnoreResult
    /\ gitignoreTmp' = gitignoreTmp
    /\ scanRoot' = <<>>
    /\ fsTrace' = <<>>
    /\ scanOutcome' = "none"
    /\ findings' = <<>>
    /\ stdout' = <<>>
    /\ warnings' = <<>>
    /\ exitStatus' = "none"
    /\ staged_files' = <<>>
    /\ hookFindings' = <<>>
    /\ hookExit' = "none"

\* no scan has run, no hook is installed, the pattern objects are as
\* patterns.js creates them
NoCalls ==
    /\ lastIndex = [t \in SecretTypes |-> 0]
    /\ scans = 0
    /\ prevFindings = <<>>
    /\ scanRoot = <<>>
    /\ fsTrace = <<>>
    /\ scanOutcome = "none"
    /\ gitDir = TRUE
    /\ hooksDir = TRUE
    /\ preCommit = NoHook
    /\ hooksResult = NoHooksResult
    /\ dotGitignore = NoGitignore
    /\ lastCall = "none"
    /\ cleanResult = NoCleanResult
    /\ cleanCall = NoCleanCall
    /\ gitignoreTmp = NoGitignore
    /\ ignoreResult = NoIgnoreResult

EmptyTree == [p \in PathSet |-> NoEntry]
EmptyIndex == [p \in PathSet |-> Absent]

\* ---- the scanner on one file ----
InitScan ==
    /\ fsys = EmptyTree
    /\ index = EmptyIndex
    /\ head = EmptyIndex
    /\ requireDefined = FALSE
    /\ NoResults
    /\ NoCalls
    /\ pc = "idle"

\* the file is written: a first time, or again once the findings of the
\* previous content have been displayed
WriteFile(content) ==
    /\ fsys[ScanPath].type = "none" \/ pc = "displayed"
    /\ fsys' = [fsys EXCEPT ![ScanPath] = FileNode(content, TRUE)]
    /\ pc' = "idle"
    /\ ResetResults
    /\ UNCHANGED <<index, head, requireDefined>>
    /\ UNCHANGED <<patternVars, hooksVars, lastCall>>

\* scanFileForSecrets(filePath)
ScanFile ==
    /\ pc = "idle"
    /\ fsys[ScanPath].type = "file"
    /\ findings' = scanFileForSecrets(ScanPath)
    /\ warnings' = scanFileWarnings(ScanPath)
    /\ pc' = "scanned"
    /\ UNCHANGED <<fsys, index, head, requireDefined, stdout, exitStatus,
                   staged_files, hookFindings, hookExit>>
    /\ lastIndex' = [t \in SecretTypes |-> LastIndexAfterFile(t, ScanPath, lastIndex[t])]
    /\ UNCHANGED <<scans, prevFindings, walkVars, hooksVars, lastCall>>
    /\ UNCHANGED cleanVars
    /\ UNCHANGED ignoreVars

\* displayFindings(findings)
DisplayFindings ==
    /\ pc = "scanned"
    /\ stdout' = displayFindingsOutput(findings)
    /\ pc' = "displayed"
    /\ UNCHANGED <<fsys, index, head, requireDefined, findings, warnings, exitStatus,
                   staged_files, hookFindings, hookExit>>
    /\ UNCHANGED <<patternVars, walkVars, hooksVars, lastCall>>
    /\ UNCHANGED cleanVars
    /\ UNCHANGED ignoreVars

NextScan ==
    \/ \E content \in ContentPool : WriteFile(content)
    \/ ScanFile
    \/ DisplayFindings

SpecScan == InitScan /\ [][NextScan]_vars

\* ---- the repository: working tree, index, CLI scan and commits ----
InitRepo ==
    /\ fsys = EmptyTree
    /\ index = EmptyIndex
    /\ head = EmptyIndex
    /\ requireDefined \in BOOLEAN
    /\ NoResults
    /\ NoCalls
    /\ pc = "idle"

\* the user writes a file of the working tree
EditFile(p, content) ==
    /\ fsys[p] # FileNode(content, TRUE)
    /\ fsys' = [fsys EXCEPT ![p] = FileNode(content, TRUE)]
    /\ pc' = "idle"
    /\ ResetResults
    /\ UNCHANGED <<index, head, requireDefined>>
    /\ UNCHANGED <<patternVars, hooksVars, lastCall>>

\* the user deletes a file of the working tree
DeleteFile(p) ==
    /\ fsys[p].type = "file"
    /\ fsys' = [fsys EXCEPT ![p] = NoEntry]
    /\ pc' = "idle"
    /\ ResetResults
    /\ UNCHANGED <<index, head, requireDefined>>
    /\ UNCHANGED <<patternVars, hooksVars, lastCall>>

\* git add: the working-tree state of the path is staged
GitAdd(p) ==
    LET staged == IF fsys[p].type = "file" THEN Blob(fsys[p].content) ELSE Absent IN
    /\ index[p] # staged
    /\ index' = [index EXCEPT ![p] = staged]
    /\ pc' = "idle"
    /\ ResetResults
    /\ UNCHANGED <<fsys, head, requireDefined>>
    /\ UNCHANGED <<patternVars, hooksVars, lastCall>>

\* git commit: git runs the pre-commit hook and commits the index when the
\* hook exits 0
CommitAttempt ==
    /\ staged_files' = StagedFiles
    /\ hookFindings' = HookMain.reports
    /\ hookExit' = HookMain.exit
    /\ head' = IF hookExit' = 0 THEN index ELSE head
    /\ pc' = "committing"
    /\ findings' = <<>>
    /\ stdout' = <<>>
    /\ warnings' = <<>>
    /\ exitStatus' = "none"
    /\ UNCHANGED <<fsys, index, requireDefined>>
    /\ scanRoot' = <<>>
    /\ fsTrace' = <<>>
    /\ scanOutcome' = "none"
    /\ UNCHANGED <<patternVars, hooksVars, lastCall>>
    /\ cleanResult' = NoCleanResult
    /\ cleanCall' = NoCleanCall
    /\ UNCHANGED ignoreVars

\* secure-commit scan
CliScan ==
    /\ fsTrace' = scanRecursive(<<>>)
    /\ findings' = Pushed(fsTrace')
    /\ warnings' = Warned(fsTrace')
    /\ scanRoot' = <<>>
    /\ scanOutcome' = ScanDirectoryOutcome(<<>>)
    /\ lastIndex' = [t \in SecretTypes |-> LastIndexAfterCalls(t, fsTrace', 1, lastIndex[t])]
    /\ stdout' = ScanCommandOutput(findings', findTrackedSensitiveFiles)
    /\ exitStatus' = ScanCommandExit(findings', findTrackedSensitiveFiles)
    /\ pc' = "scanned"
    /\ staged_files' = <<>>
    /\ hookFindings' = <<>>
    /\ hookExit' = "none"
    /\ UNCHANGED <<fsys, index, head, requireDefined, scans, prevFindings, hooksVars, lastCall>>
    /\ UNCHANGED cleanVars
    /\ UNCHANGED ignoreVars

NextRepo ==
    \/ \E p \in RepoPaths, content \in RepoContents : EditFile(p, content)
    \/ \E p \in RepoPaths : DeleteFile(p)
    \/ \E p \in RepoPaths : GitAdd(p)
    \/ CommitAttempt
    \/ CliScan

SpecRepo == InitRepo /\ [][NextRepo]_vars

\* ---- the hook on one staged file ----
\* the contents of the staged file
StagedPool == {LineClean, LineStripeScenario, LineAwsFixture, LineShortDb, LineJwt,
               LineGoogleHyphen}

InitStaged == InitScan

NextStaged ==
    \/ \E content \in StagedPool : EditFile(ScanPath, content)
    \/ GitAdd(ScanPath)
    \/ CommitAttempt

SpecStaged == InitStaged /\ [][NextStaged]_vars

\* ---- scanDirectory over a tree ----
\* the directories and the files the tree model creates
TreeDirs == {<<NameLib>>, <<NameNodeModules>>}
TreeFiles == {<<NameLib, NameAppJs>>, <<NameNodeModules, NameAppJs>>,
              <<NameSecretBin>>, <<NameSecretEnv>>}
\* what a file of the tree is: a readable file with one AWS key or with
\* findings of three kinds, a file that cannot be read, an entry that
\* statSync fails on
TreeFileNodes == {FileNode(LineAwsFixture, TRUE), FileNode(ContentMixed, TRUE),
                  FileNode(LineAwsFixture, FALSE), BrokenNode}
TreeDirNodes == {DirNode(TRUE), DirNode(FALSE)}
\* the dirPath values scanDirectory is called with
ScanRoots == {<<>>, <<NameLib>>, <<NameSecretEnv>>}

\* the directory a path is an entry of is there (the root always is)
ParentIsDir(p) ==
    IF Len(p) = 1 THEN TRUE ELSE fsys[SubSeq(p, 1, Len(p) - 1)].type = "dir"

InitTree == InitScan

\* an entry is created in the tree
MkNode(p, node) ==
    /\ fsys[p].type = "none"
    /\ ParentIsDir(p)
    /\ fsys' = [fsys EXCEPT ![p] = node]
    /\ pc' = "idle"
    /\ ResetResults
    /\ lastCall' = "write"
    /\ UNCHANGED <<index, head, requireDefined, patternVars, hooksVars>>

\* scanDirectory(dirPath)
ScanTree(dirPath) ==
    /\ fsTrace' = scanRecursive(dirPath)
    /\ findings' = Pushed(fsTrace')
    /\ warnings' = Warned(fsTrace')
    /\ scanRoot' = dirPath
    /\ scanOutcome' = ScanDirectoryOutcome(dirPath)
    /\ lastIndex' = [t \in SecretTypes |-> LastIndexAfterCalls(t, fsTrace', 1, lastIndex[t])]
    /\ lastCall' = "scanDirectory"
    /\ pc' = "scanned"
    /\ UNCHANGED <<fsys, index, head, requireDefined, stdout, exitStatus,
                   staged_files, hookFindings, hookExit, scans, prevFindings, hooksVars>>
    /\ UNCHANGED cleanVars
    /\ UNCHANGED ignoreVars

NextTree ==
    \/ \E p \in TreeDirs, node \in TreeDirNodes : MkNode(p, node)
    \/ \E p \in TreeFiles, node \in TreeFileNodes : MkNode(p, node)
    \/ \E dirPath \in ScanRoots : ScanTree(dirPath)

SpecTree == InitTree /\ [][NextTree]_vars

\* ---- repeated scans of one file ----
\* the contents of the file that is scanned repeatedly
RescanPool == LinePool \cup {ContentMixed}

\* the most scans of a content
MaxScans == 3

InitRescan == InitScan

\* the file is written
Rewrite(content) ==
    /\ fsys[ScanPath] # FileNode(content, TRUE)
    /\ fsys' = [fsys EXCEPT ![ScanPath] = FileNode(content, TRUE)]
    /\ pc' = "idle"
    /\ ResetResults
    /\ scans' = 0
    /\ prevFindings' = <<>>
    /\ lastCall' = "write"
    /\ UNCHANGED <<index, head, requireDefined, lastIndex, hooksVars>>

\* one more call scanFileForSecrets(filePath) on the unchanged file
ScanFileAgain ==
    /\ fsys[ScanPath].type = "file"
    /\ scans < MaxScans
    /\ prevFindings' = findings
    /\ findings' = scanFileForSecrets(ScanPath)
    /\ warnings' = scanFileWarnings(ScanPath)
    /\ lastIndex' = [t \in SecretTypes |-> LastIndexAfterFile(t, ScanPath, lastIndex[t])]
    /\ scans' = scans + 1
    /\ lastCall' = "scanFileForSecrets"
    /\ pc' = "scanned"
    /\ UNCHANGED <<fsys, index, head, requireDefined, stdout, exitStatus,
                   staged_files, hookFindings, hookExit, walkVars, hooksVars>>
    /\ UNCHANGED cleanVars
    /\ UNCHANGED ignoreVars

\* one more call scanDirectory('.') on the unchanged tree
ScanDirectoryAgain ==
    /\ fsys[ScanPath].type = "file"
    /\ scans < MaxScans
    /\ prevFindings' = findings
    /\ fsTrace' = scanRecursive(<<>>)
    /\ findings' = Pushed(fsTrace')
    /\ warnings' = Warned(fsTrace')
    /\ scanRoot' = <<>>
    /\ scanOutcome' = ScanDirectoryOutcome(<<>>)
    /\ lastIndex' = [t \in SecretTypes |-> LastIndexAfterCalls(t, fsTrace', 1, lastIndex[t])]
    /\ scans' = scans + 1
    /\ lastCall' = "scanDirectory"
    /\ pc' = "scanned"
    /\ UNCHANGED <<fsys, index, head, requireDefined, stdout, exitStatus,
                   staged_files, hookFindings, hookExit, hooksVars>>
    /\ UNCHANGED cleanVars
    /\ UNCHANGED ignoreVars

NextRescan ==
    \/ \E content \in RescanPool : Rewrite(content)
    \/ ScanFileAgain
    \/ ScanDirectoryAgain

SpecRescan == InitRescan /\ [][NextRescan]_vars

\* ---- the hook commands: init, install, uninstall ----
\* the hooks a user writes to .git/hooks/pre-commit
HookPool == {ForeignHook, ForeignHookNamingTool}

\* the contents a user writes to .gitignore
GitignorePool ==
    { <<"n","o","d","e","_","m","o","d","u","l","e","s","/","\n">>,
      <<".","e","n","v","\n","*",".","l","o","g">>,
      <<"#"," ","m","i","n","e","\r","\n",".","e","n","v","*","\r","\n","*",".","l","o","g","\r","\n",".","D","S","_","S","t","o","r","e","\r","\n","s","e","c","r","e","t","s",".","j","s","o","n","\r","\n","c","o","n","f","i","g",".","j","s","o","n","\r","\n">> }

InitHooks == InitScan

\* the user writes a pre-commit hook of their own
UserWritesHook(content) ==
    /\ gitDir /\ hooksDir
    /\ preCommit' = HookFile(content, "755")
    /\ hooksResult' = NoHooksResult
    /\ ResetResults
    /\ pc' = "idle"
    /\ lastCall' = "write"
    /\ UNCHANGED <<fsys, index, head, requireDefined, patternVars, gitDir, hooksDir, dotGitignore>>

\* the user removes the pre-commit hook
UserRemovesHook ==
    /\ preCommit.exists
    /\ preCommit' = NoHook
    /\ hooksResult' = NoHooksResult
    /\ ResetResults
    /\ pc' = "idle"
    /\ lastCall' = "write"
    /\ UNCHANGED <<fsys, index, head, requireDefined, patternVars, gitDir, hooksDir, dotGitignore>>

\* the user writes .gitignore
UserWritesGitignore(content) ==
    /\ dotGitignore' = GitignoreOf(content)
    /\ hooksResult' = NoHooksResult
    /\ ResetResults
    /\ pc' = "idle"
    /\ lastCall' = "write"
    /\ UNCHANGED <<fsys, index, head, requireDefined, patternVars, gitDir, hooksDir, preCommit>>

\* rm -rf .git
RemoveGitDir ==
    /\ gitDir
    /\ gitDir' = FALSE
    /\ hooksDir' = FALSE
    /\ preCommit' = NoHook
    /\ hooksResult' = NoHooksResult
    /\ ResetResults
    /\ pc' = "idle"
    /\ lastCall' = "write"
    /\ UNCHANGED <<fsys, index, head, requireDefined, patternVars, dotGitignore>>

\* git init, with or without its hooks directory
GitInit(withHooksDir) ==
    /\ ~gitDir
    /\ gitDir' = TRUE
    /\ hooksDir' = withHooksDir
    /\ hooksResult' = NoHooksResult
    /\ ResetResults
    /\ pc' = "idle"
    /\ lastCall' = "write"
    /\ UNCHANGED <<fsys, index, head, requireDefined, patternVars, preCommit, dotGitignore>>

\* installHooks('.', { force })
InstallHooks(force) ==
    /\ hooksResult' = installHooks(force).result
    /\ hooksDir' = installHooks(force).hooksDir
    /\ preCommit' = installHooks(force).preCommit
    /\ ResetResults
    /\ pc' = "idle"
    /\ lastCall' = IF force THEN "installHooks{force}" ELSE "installHooks"
    /\ UNCHANGED <<fsys, index, head, requireDefined, patternVars, gitDir, dotGitignore>>

\* uninstallHooks('.')
UninstallHooks ==
    /\ hooksResult' = uninstallHooks.result
    /\ preCommit' = uninstallHooks.preCommit
    /\ ResetResults
    /\ pc' = "idle"
    /\ lastCall' = "uninstallHooks"
    /\ UNCHANGED <<fsys, index, head, requireDefined, patternVars, gitDir, hooksDir, dotGitignore>>

\* secure-commit install [--force]
CliInstall(force) ==
    /\ stdout' = InstallCommand(force).stdout
    /\ warnings' = InstallCommand(force).stderr
    /\ exitStatus' = InstallCommand(force).exit
    /\ hooksResult' = InstallCommand(force).result
    /\ hooksDir' = InstallCommand(force).hooksDir
    /\ preCommit' = InstallCommand(force).preCommit
    /\ pc' = "idle"
    /\ lastCall' = IF force THEN "install --force" ELSE "install"
    /\ UNCHANGED <<fsys, index, head, requireDefined, findings, staged_files, hookFindings,
                   hookExit, patternVars, walkVars, gitDir, dotGitignore>>
    /\ UNCHANGED cleanVars
    /\ UNCHANGED ignoreVars

\* secure-commit uninstall
CliUninstall ==
    /\ stdout' = UninstallCommand.stdout
    /\ warnings' = UninstallCommand.stderr
    /\ exitStatus' = UninstallCommand.exit
    /\ hooksResult' = UninstallCommand.result
    /\ preCommit' = UninstallCommand.preCommit
    /\ pc' = "idle"
    /\ lastCall' = "uninstall"
    /\ UNCHANGED <<fsys, index, head, requireDefined, findings, staged_files, hookFindings,
                   hookExit, patternVars, walkVars, gitDir, hooksDir, dotGitignore>>
    /\ UNCHANGED cleanVars
    /\ UNCHANGED ignoreVars

\* secure-commit init, under an outcome of the fs calls on .gitignore
CliInit(io) ==
    /\ stdout' = InitCommand(io).stdout
    /\ warnings' = InitCommand(io).stderr
    /\ exitStatus' = InitCommand(io).exit
    /\ hooksResult' = InitCommand(io).result
    /\ dotGitignore' = InitCommand(io).gitignore
    /\ hooksDir' = InitCommand(io).hooksDir
    /\ preCommit' = InitCommand(io).preCommit
    /\ pc' = "idle"
    /\ lastCall' = "init"
    /\ UNCHANGED <<fsys, index, head, requireDefined, findings, staged_files, hookFindings,
                   hookExit, patternVars, walkVars, gitDir>>
    /\ UNCHANGED cleanVars
    /\ UNCHANGED ignoreVars

NextHooks ==
    \/ \E content \in HookPool : UserWritesHook(content)
    \/ UserRemovesHook
    \/ \E content \in GitignorePool : UserWritesGitignore(content)
    \/ RemoveGitDir
    \/ \E withHooksDir \in BOOLEAN : GitInit(withHooksDir)
    \/ \E force \in BOOLEAN : InstallHooks(force)
    \/ UninstallHooks
    \/ \E force \in BOOLEAN : CliInstall(force)
    \/ CliUninstall
    \/ \E io \in IoOutcomes : CliInit(io)

SpecHooks == InitHooks /\ [][NextHooks]_vars

\* ---- the clean command and removeTrackedSensitiveFiles ----
\* the files the user writes, stages and commits: two that
\* findTrackedSensitiveFiles takes as sensitive
CleanPaths == {<<NameEnv>>, <<NameSecretEnv>>}
\* the contents a file is written with
CleanContents(p) == IF p = <<NameEnv>> THEN {LineClean, LineEmpty} ELSE {LineClean}
\* the failures of `git rm --cached` from outside git
CleanFaults == {NoFault, Fault(<<NameEnv>>, "exit"), Fault(<<NameEnv>>, "spawn")}
\* a dry run spawns no git process
CleanFaultsOf(dryRun) == IF dryRun THEN {NoFault} ELSE CleanFaults

\* a repository whose first commit has app.js
InitClean ==
    /\ fsys = [EmptyTree EXCEPT ![<<NameAppJs>>] = FileNode(LineClean, TRUE)]
    /\ index = [EmptyIndex EXCEPT ![<<NameAppJs>>] = Blob(LineClean)]
    /\ head = [EmptyIndex EXCEPT ![<<NameAppJs>>] = Blob(LineClean)]
    /\ requireDefined \in BOOLEAN
    /\ NoResults
    /\ NoCalls
    /\ pc = "idle"

\* removeTrackedSensitiveFiles('.', { dryRun, force }), with the runs of
\* `git rm --cached` it makes
RemoveTracked(dryRun, force, statusOk, fault) ==
    /\ cleanResult' = removeTrackedSensitiveFiles(dryRun, force, statusOk, fault)
    /\ index' = IndexAfterClean(cleanResult')
    /\ cleanCall' = CleanCall(dryRun, force, statusOk, fault)
    /\ lastCall' = "removeTrackedSensitiveFiles"
    /\ pc' = "idle"
    /\ scanRoot' = <<>>
    /\ fsTrace' = <<>>
    /\ scanOutcome' = "none"
    /\ findings' = <<>>
    /\ stdout' = <<>>
    /\ warnings' = <<>>
    /\ exitStatus' = "none"
    /\ staged_files' = <<>>
    /\ hookFindings' = <<>>
    /\ hookExit' = "none"
    /\ UNCHANGED <<fsys, head, requireDefined, patternVars, hooksVars, ignoreVars>>

\* secure-commit clean [--dry-run] [--force]; the specification runs it
\* where git status succeeds and no git process fails from outside git
CliClean(dryRun, force, statusOk, fault) ==
    /\ cleanResult' = IF validateCleanupSafety(statusOk).safe
                      THEN removeTrackedSensitiveFiles(dryRun, force, statusOk, fault)
                      ELSE NoCleanResult
    /\ index' = IndexAfterClean(cleanResult')
    /\ stdout' = CleanCommand(validateCleanupSafety(statusOk), cleanResult', dryRun, force).stdout
    /\ warnings' = CleanCommand(validateCleanupSafety(statusOk), cleanResult', dryRun, force).stderr
    /\ exitStatus' = CleanCommand(validateCleanupSafety(statusOk), cleanResult', dryRun, force).exit
    /\ cleanCall' = CleanCall(dryRun, force, statusOk, fault)
    /\ lastCall' = "clean"
    /\ pc' = "idle"
    /\ scanRoot' = <<>>
    /\ fsTrace' = <<>>
    /\ scanOutcome' = "none"
    /\ findings' = <<>>
    /\ staged_files' = <<>>
    /\ hookFindings' = <<>>
    /\ hookExit' = "none"
    /\ UNCHANGED <<fsys, head, requireDefined, patternVars, hooksVars, ignoreVars>>

NextClean ==
    \/ \E p \in CleanPaths : \E content \in CleanContents(p) : EditFile(p, content)
    \/ \E p \in CleanPaths : DeleteFile(p)
    \/ \E p \in CleanPaths : GitAdd(p)
    \/ CommitAttempt
    \/ \E dryRun \in BOOLEAN, force \in BOOLEAN, statusOk \in BOOLEAN :
          \E fault \in CleanFaultsOf(dryRun) :
             RemoveTracked(dryRun, force, statusOk, fault)
    \/ \E dryRun \in BOOLEAN, force \in BOOLEAN : CliClean(dryRun, force, TRUE, NoFault)

SpecClean == InitClean /\ [][NextClean]_vars

\* ---- updateGitignore, previewGitignoreChanges and validateGitignore ----
\* a content with a comment, a blank line, a negation and a pattern of the
\* user, without a final newline
UserLines == <<"#"," ","m","i","n","e","\n","\n","!",".","e","n","v",".","e","x","a","m","p","l","e","\n","b","u","i","l","d">>

\* the contents a user writes to .gitignore: those of the init command's
\* model and UserLines
IgnorePool == GitignorePool \cup {UserLines}

\* the frameworks lists of the calls
FrameworkLists ==
    { <<<<"g","e","n","e","r","i","c">>>>,
      <<<<"p","h","p">>, <<"n","o","d","e">>>> }

\* the outcomes of the fs calls of save
SaveFaults ==
    { NoSaveFault,
      SaveFault("unopened", TRUE, TRUE),
      SaveFault("partial", TRUE, TRUE), SaveFault("partial", TRUE, FALSE),
      SaveFault("ok", FALSE, TRUE), SaveFault("ok", FALSE, FALSE) }

InitIgnore == InitScan

\* the results of the other operations are cleared
ClearOtherResults ==
    /\ cleanResult' = NoCleanResult
    /\ cleanCall' = NoCleanCall
    /\ hooksResult' = NoHooksResult
    /\ scanRoot' = <<>>
    /\ fsTrace' = <<>>
    /\ scanOutcome' = "none"
    /\ findings' = <<>>
    /\ stdout' = <<>>
    /\ warnings' = <<>>
    /\ exitStatus' = "none"
    /\ staged_files' = <<>>
    /\ hookFindings' = <<>>
    /\ hookExit' = "none"
    /\ pc' = "idle"

\* updateGitignore(frameworks, '.') under an outcome of the fs calls of save
UpdateGitignore(frameworks, fault) ==
    /\ ignoreResult' = UpdateGitignoreCall(frameworks, dotGitignore, gitignoreTmp, fault)
    /\ dotGitignore' = IF ignoreResult'.trace = <<>> THEN dotGitignore
                       ELSE ignoreResult'.trace[Len(ignoreResult'.trace)].gitignore
    /\ gitignoreTmp' = IF ignoreResult'.trace = <<>> THEN gitignoreTmp
                       ELSE ignoreResult'.trace[Len(ignoreResult'.trace)].tmp
    /\ lastCall' = "updateGitignore"
    /\ ClearOtherResults
    /\ UNCHANGED <<fsys, index, head, requireDefined, patternVars, gitDir, hooksDir, preCommit>>

\* previewGitignoreChanges(frameworks, '.')
PreviewGitignore(frameworks) ==
    /\ ignoreResult' = previewGitignoreChanges(frameworks, dotGitignore)
    /\ lastCall' = "previewGitignoreChanges"
    /\ ClearOtherResults
    /\ UNCHANGED <<fsys, index, head, requireDefined, patternVars, gitDir, hooksDir, preCommit,
                   dotGitignore, gitignoreTmp>>

\* validateGitignore(frameworks, '.')
ValidateGitignore(frameworks) ==
    /\ ignoreResult' = IgnoreResult("validateGitignore", frameworks, "returned",
                                    validateGitignore(frameworks, dotGitignore).issues, FALSE,
                                    <<>>, <<>>,
                                    validateGitignore(frameworks, dotGitignore).valid, <<>>)
    /\ lastCall' = "validateGitignore"
    /\ ClearOtherResults
    /\ UNCHANGED <<fsys, index, head, requireDefined, patternVars, gitDir, hooksDir, preCommit,
                   dotGitignore, gitignoreTmp>>

NextIgnore ==
    \/ \E content \in IgnorePool : UserWritesGitignore(content)
    \/ \E frameworks \in FrameworkLists, fault \in SaveFaults : UpdateGitignore(frameworks, fault)
    \/ \E frameworks \in FrameworkLists : PreviewGitignore(frameworks)
    \/ \E frameworks \in FrameworkLists : ValidateGitignore(frameworks)

SpecIgnore == InitIgnore /\ [][NextIgnore]_vars

(***************************************************************************)
(* Properties.                                                             *)
(***************************************************************************)
\* the file of the scanner model has been scanned and not rewritten since
Scanned == pc \in {"scanned", "displayed"} /\ fsys[ScanPath].type = "file"

\* the lines of the scanned file as split('\n') gives them
ScannedLines == SplitNewline(fsys[ScanPath].content)

RECURSIVE FullMatchesOfPattern(_, _, _)
\* the match[0] values of one catalog entry over the lines from index n on
FullMatchesOfPattern(secretType, lines, n) ==
    IF n > Len(lines) THEN <<>>
    ELSE MatchAll(secretType, lines[n]) \o FullMatchesOfPattern(secretType, lines, n + 1)

RECURSIVE FullMatchesFrom(_, _)
\* the match[0] values of a content in the order the findings are pushed,
\* from catalog entry k on
FullMatchesFrom(lines, k) ==
    IF k > Len(secretPatterns) THEN <<>>
    ELSE FullMatchesOfPattern(secretPatterns[k].type, lines, 1) \o FullMatchesFrom(lines, k + 1)

FullMatches == FullMatchesFrom(ScannedLines, 1)

\* the first n characters of s, all of s when it is shorter
Take(s, n) == [i \in 1..(IF Len(s) < n THEN Len(s) ELSE n) |-> s[i]]

StagedSecret(p) ==
    /\ index[p].present
    /\ \E n \in 1..Len(HookKinds) : GrepQ(HookKinds[n], index[p].content)

\* C2: at every commit attempt, when the staged content of an added, copied
\* or modified file that passes the hook's file filter matches one of the
\* hook's patterns, the hook exits non-zero and nothing is committed,
\* whatever the working-tree copy of the file holds.
C2_StagedSecretBlocksCommit ==
    pc = "committing" =>
        \A k \in 1..Len(staged_files) :
            (HookCaseMatches(staged_files[k]) /\ StagedSecret(staged_files[k]))
                => (hookExit # 0 /\ head[staged_files[k]] # index[staged_files[k]])

\* ---------------------------------------------------------------- C3
\* C3: for every finding, the full matched text appears neither in the
\* finding's match field nor in any line displayFindings prints.
C3_FullMatchNeverExposed ==
    Scanned =>
        \A k \in 1..Len(FullMatches) :
            /\ \A j \in 1..Len(findings) : ~Includes(findings[j].match, FullMatches[k])
            /\ \A j \in 1..Len(stdout) : ~Includes(stdout[j], FullMatches[k])

\* ---------------------------------------------------------------- C4
\* C4: the preview of every finding is the first 12 characters of the
\* matched text followed by '...', so it is at most 15 characters long; the
\* match 'sk_live_abcdefgh...' gives 'sk_live_abcd...'.
C4_PreviewIsFirst12PlusEllipsis ==
    Scanned =>
        /\ Len(findings) = Len(FullMatches)
        /\ \A k \in 1..Len(findings) :
              /\ findings[k].match = Take(FullMatches[k], 12) \o <<".", ".", ".">>
              /\ Len(findings[k].match) <= 15
        /\ fsys[ScanPath].content = LineStripeScenario =>
              /\ Len(findings) = 1
              /\ findings[1].match = <<"s","k","_","l","i","v","e","_","a","b","c","d",".",".",".">>

\* the scenario line has been scanned and its match is longer than the preview
C4_Witness ==
    /\ Scanned
    /\ fsys[ScanPath].content = LineStripeScenario
    /\ Len(findings) = 1
    /\ Len(FullMatches[1]) > 12
    /\ findings[1].match = <<"s","k","_","l","i","v","e","_","a","b","c","d",".",".",".">>

\* ---------------------------------------------------------------- C5
\* the positions of the findings of one kind on one line, in order
FindingsAt(secretType, n) ==
    SelectSeq(findings, LAMBDA f : f.type = secretType /\ f.line = n)

\* C5: for every signature of the catalog and every line of the content,
\* each match of the signature on the line yields exactly one finding with
\* that line's number, whatever its severity and whatever else matched on
\* the line.
C5_EveryMatchReported ==
    Scanned =>
        \A secretType \in SecretTypes : \A n \in 1..Len(ScannedLines) :
            LET matches == MatchAll(secretType, ScannedLines[n])
                reported == FindingsAt(secretType, n)
            IN  /\ Len(reported) = Len(matches)
                /\ \A m \in 1..Len(matches) :
                      reported[m].match = Take(matches[m], 12) \o <<".", ".", ".">>

\* a line with two matches of one kind and a line with matches of two kinds
C5_Witness ==
    /\ Scanned
    /\ \E j, k \in 1..Len(findings) :
          /\ j # k
          /\ findings[j].line = findings[k].line
          /\ findings[j].type = findings[k].type
          /\ findings[j].match # findings[k].match

\* ---------------------------------------------------------------- C6
\* the severity the specification gives to each kind
SeverityTable(secretType) ==
    CASE secretType \in {"stripe_live", "aws_access", "jwt_secret", "database_url"} -> "high"
      [] secretType \in {"openai", "github_token"} -> "medium"
      [] OTHER -> "low"

\* C6: the severity of a finding is a function of its kind alone: high for
\* stripe_live, aws_access, jwt_secret and database_url, medium for openai
\* and github_token, low for every other kind, also one added later; it is
\* always one of the three levels.
C6_SeverityByKind ==
    /\ \A secretType \in SecretTypes \cup {"added_later"} :
          /\ getSeverity(secretType) = SeverityTable(secretType)
          /\ getSeverity(secretType) \in {"high", "medium", "low"}
    /\ Scanned =>
          \A k \in 1..Len(findings) :
              /\ findings[k].severity = SeverityTable(findings[k].type)
              /\ findings[k].severity \in {"high", "medium", "low"}

\* a medium finding has been produced
C6_Witness ==
    /\ Scanned
    /\ \E k \in 1..Len(findings) :
          findings[k].type = "openai" /\ findings[k].severity = "medium"

\* ---------------------------------------------------------------- C7
\* [0-9A-Za-z_-], the class the specification gives for Google API keys
SpecGoogleClass == Alnum \cup {"_", "-"}

\* the format the specification gives for a kind starts at index i of a line
SpecFormatAt(secretType, line, i) ==
    LET fixed(prefix, cls, n) ==
            /\ i + Len(prefix) + n - 1 <= Len(line)
            /\ SubSeq(line, i, i + Len(prefix) - 1) = prefix
            /\ \A k \in (i + Len(prefix))..(i + Len(prefix) + n - 1) : line[k] \in cls
    IN  CASE secretType = "stripe_live" -> fixed(<<"s","k","_","l","i","v","e","_">>, Alnum, 24)
          [] secretType = "stripe_test" -> fixed(<<"s","k","_","t","e","s","t","_">>, Alnum, 24)
          [] secretType = "openai" -> fixed(<<"s","k","-">>, Alnum, 48)
          [] secretType = "aws_access" -> fixed(<<"A","K","I","A">>, UpperDigit, 16)
          [] secretType = "github_token" -> fixed(<<"g","h","p","_">>, Alnum, 36)
          [] secretType = "google_api" -> fixed(<<"A","I","z","a">>, SpecGoogleClass, 35)
          [] secretType = "database_url" ->
                \E h \in {<<"m","o","n","g","o","d","b",":","/","/">>, <<"p","o","s","t","g","r","e","s",":","/","/">>, <<"m","y","s","q","l",":","/","/">>} :
                    /\ i + Len(h) <= Len(line)
                    /\ SubSeq(line, i, i + Len(h) - 1) = h
                    /\ line[i + Len(h)] \notin {" ", "\t", "\r", "\n", "\f", "'", "\""}
          [] OTHER -> FALSE

\* C7: each matcher of the catalog, and each grep of the hook, accepts every
\* string of the format the specification gives for its kind; a Google API
\* key with '-' in its body is matched.
C7_FormatsAccepted ==
    Scanned =>
        \A n \in 1..Len(ScannedLines) : \A i \in 1..Len(ScannedLines[n]) :
            \A secretType \in SecretTypes \ {"jwt_secret"} :
                SpecFormatAt(secretType, ScannedLines[n], i) =>
                    /\ PatternMatchEnd(secretType, ScannedLines[n], i) # 0
                    /\ GrepMatchesAt(secretType, ScannedLines[n], i)
                    /\ \E k \in 1..Len(findings) :
                          findings[k].type = secretType /\ findings[k].line = n

\* ---------------------------------------------------------------- C8
\* the kind each fixture line of test-secrets.js is a literal of
FixtureKind ==
    [line \in {LineStripeFixture, LineAwsFixture, LineDatabaseFixture, LineOpenaiFixture,
               LineGithubFixture, LineStripeTestFixture, LineGoogleFixture} |->
        CASE line = LineStripeFixture -> "stripe_live"
          [] line = LineAwsFixture -> "aws_access"
          [] line = LineDatabaseFixture -> "database_url"
          [] line = LineOpenaiFixture -> "openai"
          [] line = LineGithubFixture -> "github_token"
          [] line = LineStripeTestFixture -> "stripe_test"
          [] OTHER -> "google_api"]

\* C8: a file of one line that holds one fixture literal of test-secrets.js
\* produces exactly one finding, of the literal's kind and with that kind's
\* severity.
C8_FixturesTrigger ==
    (Scanned /\ fsys[ScanPath].content \in DOMAIN FixtureKind) =>
        /\ Len(findings) = 1
        /\ findings[1].type = FixtureKind[fsys[ScanPath].content]
        /\ findings[1].severity = SeverityTable(findings[1].type)
        /\ findings[1].line = 1

\* ---------------------------------------------------------------- C9
\* C9: the line of every finding is the 1-based index, among the lines of
\* the content, of a line on which its kind matches with its preview; it is
\* at least 1 and at most the number of lines.
C9_LineIsOneBasedIndex ==
    Scanned =>
        \A k \in 1..Len(findings) :
            /\ findings[k].line \in 1..Len(ScannedLines)
            /\ \E m \in 1..Len(MatchAll(findings[k].type, ScannedLines[findings[k].line])) :
                  findings[k].match =
                      Take(MatchAll(findings[k].type, ScannedLines[findings[k].line])[m], 12)
                          \o <<".", ".", ".">>

\* the first finding of the result is on the last of several lines and a
\* later finding is on an earlier line
C9_Witness ==
    /\ Scanned
    /\ Len(ScannedLines) >= 2
    /\ \E j, k \in 1..Len(findings) :
          j < k /\ findings[j].line = Len(ScannedLines) /\ findings[k].line = 1

\* ---------------------------------------------------------------- C10
\* a line without the carriage return a \r\n separator leaves at its end
StripCR(line) ==
    IF Len(line) > 0 /\ line[Len(line)] = "\r" THEN SubSeq(line, 1, Len(line) - 1) ELSE line

\* the lines of the scanned file with either separator removed
LogicalLines == [n \in 1..Len(ScannedLines) |-> StripCR(ScannedLines[n])]

\* the part of a finding the claim compares
LineKindPreview(fs) == [k \in 1..Len(fs) |-> <<fs[k].line, fs[k].type, fs[k].match>>]

\* C10: the findings (line, kind, preview) of a content are the same whether
\* its lines are separated by \r\n, by \n, or by a mix of both.
C10_LineEndingsAgree ==
    Scanned =>
        LET file == JoinPath(ScanPath)
            n == Len(LogicalLines)
            withLF == JoinLines(LogicalLines, [k \in 1..(n - 1) |-> LF])
            withCRLF == JoinLines(LogicalLines, [k \in 1..(n - 1) |-> CRLF])
        IN  /\ LineKindPreview(findings) = LineKindPreview(ScanContent(file, withLF))
            /\ LineKindPreview(findings) = LineKindPreview(ScanContent(file, withCRLF))

\* a scanned content with both separators and a finding on a line that ends
\* with \r\n
C10_Witness ==
    /\ Scanned
    /\ \E a, b \in 1..(Len(ScannedLines) - 1) :
          /\ ScannedLines[a] # StripCR(ScannedLines[a])
          /\ ScannedLines[b] = StripCR(ScannedLines[b])
          /\ \E k \in 1..Len(findings) : findings[k].line = a

\* ---------------------------------------------------------------- C11
\* C11: the findings of a scan are in file-then-line order: the findings of
\* one file are contiguous and, within one file, in non-decreasing line-number
\* order, whatever kinds they have.
C11_FileThenLineOrder ==
    Scanned =>
        \A i, j \in 1..Len(findings) :
            (i < j /\ findings[i].file = findings[j].file) =>
                /\ findings[i].line <= findings[j].line
                /\ \A k \in i..j : findings[k].file = findings[i].file

\* ---------------------------------------------------------------- C18
\* the lines of an output that start with three spaces and a given emoji
LinesWithIcon(out, icon) ==
    SelectSeq(out, LAMBDA l : StartsWith(l, <<" "," "," ">> \o icon \o <<" ">>))

\* the findings in the order of the severity groups
BySeverity(fs) ==
    SelectSeq(fs, LAMBDA f : f.severity = "high")
        \o SelectSeq(fs, LAMBDA f : f.severity = "medium")
        \o SelectSeq(fs, LAMBDA f : f.severity = "low")

\* C18: displayFindings shows every finding exactly once, the High group
\* before the Medium group before the Low group and each group in the order
\* of the findings sequence; the number of findings shown is findings.length,
\* which is the total it prints; the findings sequence is left as the scan
\* returned it, and the result of displayFindings is findings.length > 0.
C18_GroupingIsPresentationOnly ==
    pc = "displayed" =>
        LET files == LinesWithIcon(stdout, <<"{folder}">>)
            keys == LinesWithIcon(stdout, <<"{key}">>)
            order == BySeverity(findings)
        IN  /\ findings = scanFileForSecrets(ScanPath)
            /\ Len(files) = Len(findings)
            /\ Len(keys) = Len(findings)
            /\ Len(order) = Len(findings)
            /\ \A k \in 1..Len(order) :
                  /\ files[k] = <<" "," "," ","{folder}"," ">> \o order[k].file
                                    \o <<":">> \o ToDecimal(order[k].line)
                  /\ keys[k] = <<" "," "," ","{key}"," ">> \o order[k].match
            /\ findings # <<>> =>
                  stdout[1] = <<"{cross}">> \o <<" ","F","o","u","n","d"," ">> \o ToDecimal(Len(findings))
                                \o <<" ","p","o","t","e","n","t","i","a","l"," ","s","e","c","r","e","t","(","s",")",":","\n">>
            /\ displayFindings(findings) <=> Len(findings) > 0

\* displayed findings of the three severities whose display order is not the
\* order of the findings sequence
C18_Witness ==
    /\ pc = "displayed"
    /\ {findings[k].severity : k \in 1..Len(findings)} = {"high", "medium", "low"}
    /\ BySeverity(findings) # findings

\* ---------------------------------------------------------------- C12
\* the part of a finding the claim compares
FileLineKindPreview(fs) ==
    [k \in 1..Len(fs) |-> <<fs[k].file, fs[k].line, fs[k].type, fs[k].match>>]

\* C12: every scan of an unchanged file, by scanFileForSecrets or by
\* scanDirectory, returns the (file, line, kind, preview) findings of the
\* scan before it and the findings of the content, however many scans ran
\* before, and leaves the shared pattern objects as it found them.
C12_ScansAreRepeatable ==
    scans >= 1 =>
        /\ lastIndex = [t \in SecretTypes |-> 0]
        /\ FileLineKindPreview(findings)
              = FileLineKindPreview(FindingsFromEntry(JoinPath(ScanPath), ScannedLines, 1))
        /\ scans >= 2 => FileLineKindPreview(findings) = FileLineKindPreview(prevFindings)

\* a third scan of a file with findings, after scans of both kinds
C12_Witness ==
    /\ scans = MaxScans
    /\ findings # <<>>
    /\ prevFindings = findings
    /\ lastCall = "scanDirectory"

\* ---------------------------------------------------------------- C13
\* p is strictly below dir
IsBelow(dir, p) == Len(p) > Len(dir) /\ SubSeq(p, 1, Len(dir)) = dir

\* the name of a path is on the allow-list: it begins with .env, or it ends
\* with a listed extension that is not the whole name
AllowListed(p) ==
    LET name == p[Len(p)] IN
    \/ Take(name, 4) = <<".","e","n","v">>
    \/ \E ext \in fileExtensions : Len(name) > Len(ext) /\ EndsWith(name, ext)

\* the findings of a scan for one file
FindingsOfFile(p) == SelectSeq(findings, LAMBDA f : f.file = JoinPath(p))

\* the fs calls of one kind that the last scanDirectory made on a path
CallsOn(op, p) == SelectSeq(fsTrace, LAMBDA e : e.op = op /\ e.path = p)

\* C13: shouldScanFile is true exactly for the names that begin with .env or
\* have an extension of the allow-list; scanDirectory never reads a file that
\* is not on the allow-list and reports no finding for it: secret.bin with an
\* AWS key gives no finding, secret.env with the same line gives one.
C13_OnlyAllowListedFilesAreRead ==
    pc = "scanned" =>
        /\ \A p \in PathSet : shouldScanFile(p) <=> AllowListed(p)
        /\ \A p \in PathSet :
              (fsys[p].type = "file" /\ ~AllowListed(p)) =>
                  (CallsOn("readFileSync", p) = <<>> /\ FindingsOfFile(p) = <<>>)
        /\ (scanRoot = <<>> /\ fsys[<<NameSecretBin>>] = FileNode(LineAwsFixture, TRUE)) =>
              FindingsOfFile(<<NameSecretBin>>) = <<>>
        /\ (scanRoot = <<>> /\ fsys[<<NameSecretEnv>>] = FileNode(LineAwsFixture, TRUE)) =>
              /\ Len(FindingsOfFile(<<NameSecretEnv>>)) = 1
              /\ FindingsOfFile(<<NameSecretEnv>>)[1].type = "aws_access"

\* a scan of a tree with the AWS key in secret.bin and in secret.env
C13_Witness ==
    /\ pc = "scanned"
    /\ scanRoot = <<>>
    /\ fsys[<<NameSecretBin>>] = FileNode(LineAwsFixture, TRUE)
    /\ fsys[<<NameSecretEnv>>] = FileNode(LineAwsFixture, TRUE)
    /\ Len(findings) = 1

\* ---------------------------------------------------------------- C14
\* the directories below the scanned root whose name is on the ignore list
IgnoredDirs ==
    {d \in PathSet : fsys[d].type = "dir" /\ d[Len(d)] \in ignoreDirs /\ IsBelow(scanRoot, d)}

\* C14: a directory below the root whose name is on the ignore list is never
\* listed, and nothing beneath it is statted or read, gives a finding or
\* gives a warning.
C14_IgnoredDirsArePruned ==
    pc = "scanned" =>
        \A d \in IgnoredDirs :
            /\ CallsOn("readdirSync", d) = <<>>
            /\ \A k \in 1..Len(fsTrace) : ~IsBelow(d, fsTrace[k].path)
            /\ \A k \in 1..Len(findings) : ~StartsWith(findings[k].file, JoinPath(d) \o <<"/">>)
            /\ \A k \in 1..Len(warnings) : ~Includes(warnings[k], JoinPath(d))

\* a scan from the root of a tree whose node_modules holds a file with a
\* secret or an entry that cannot be statted
C14_Witness ==
    /\ pc = "scanned"
    /\ scanRoot = <<>>
    /\ fsys[<<NameNodeModules>>].type = "dir"
    /\ fsys[<<NameNodeModules, NameAppJs>>] \in {FileNode(LineAwsFixture, TRUE), BrokenNode}
    /\ CallsOn("statSync", <<NameNodeModules>>) # <<>>

\* ---------------------------------------------------------------- C15
\* an entry the traversal from the scanned root gets to: the root can be
\* listed and every directory between the root and the entry can be listed
\* and is not on the ignore list
Reached(p) ==
    /\ DirListable(scanRoot)
    /\ IsBelow(scanRoot, p)
    /\ fsys[p].type # "none"
    /\ \A n \in (Len(scanRoot) + 1)..(Len(p) - 1) :
          LET a == SubSeq(p, 1, n) IN
          fsys[a].type = "dir" /\ fsys[a].ok /\ a[n] \notin ignoreDirs

RECURSIVE FindingsOfReadableFiles(_)
\* the findings of the reached allow-listed files that can be read, from
\* path k on
FindingsOfReadableFiles(k) ==
    IF k > Len(AllPaths) THEN <<>>
    ELSE LET p == AllPaths[k] IN
         (IF Reached(p) /\ fsys[p].type = "file" /\ fsys[p].ok /\ AllowListed(p)
          THEN FindingsFromEntry(JoinPath(p), SplitNewline(fsys[p].content), 1)
          ELSE <<>>) \o FindingsOfReadableFiles(k + 1)

\* the fs calls of the last scanDirectory that failed
FailedCalls == SelectSeq(fsTrace, LAMBDA e : e.op \in {"readdirSync", "statSync", "readFileSync"} /\ ~e.ok)

\* C15: scanDirectory returns whatever entries cannot be statted, read or
\* listed; every entry the traversal gets to is statted, and the result is
\* exactly the findings of the files that could be read.
C15_FailuresDoNotAbort ==
    pc = "scanned" =>
        /\ scanOutcome = "returned"
        /\ \A p \in PathSet : Reached(p) => Len(CallsOn("statSync", p)) = 1
        /\ findings = FindingsOfReadableFiles(1)

\* a scan from the root in which a file cannot be read and an entry cannot be
\* statted before a file with a finding
C15_Witness ==
    /\ pc = "scanned"
    /\ scanRoot = <<>>
    /\ fsys[<<NameLib, NameAppJs>>] = FileNode(LineAwsFixture, FALSE)
    /\ fsys[<<NameSecretBin>>] = BrokenNode
    /\ FindingsOfFile(<<NameSecretEnv>>) # <<>>
    /\ Len(FailedCalls) = 2

\* ---------------------------------------------------------------- C16
\* C16: a scanDirectory call whose root does not exist or is not a directory
\* ends with an error, not with a result.
C16_BadRootIsAnError ==
    (pc = "scanned" /\ ~DirListable(scanRoot)) => scanOutcome # "returned"

\* ---------------------------------------------------------------- C17
\* C17: a scan gives at least one warning for each entry it skips because a
\* stat, a read or a listing failed.
C17_EverySkipIsWarned ==
    pc = "scanned" => Len(warnings) >= Len(FailedCalls)

\* ---------------------------------------------------------------- C19
\* C19: the hook exits non-zero exactly when shouldScanFile and
\* scanFileForSecrets, applied to the staged files, give at least one
\* finding.
C19_HookIsScannerOnStagedFiles ==
    pc = "committing" =>
        (hookExit # 0 <=>
            \E k \in 1..Len(staged_files) :
                /\ shouldScanFile(staged_files[k])
                /\ scanFileForSecrets(staged_files[k]) # <<>>)

\* a pre-commit hook exists whose content contains neither 'Secure Project'
\* nor 'secure-commit'
ForeignHookExists ==
    /\ preCommit.exists
    /\ ~Includes(preCommit.content, MarkSecureProject)
    /\ ~Includes(preCommit.content, MarkSecureCommit)

\* installHooks without force, uninstallHooks, and the commands install,
\* uninstall and init without --force
CallsWithoutForce == {"installHooks", "uninstallHooks", "install", "uninstall", "init"}

\* C20: existing git hooks are preserved: where a pre-commit hook exists
\* whose content contains neither 'Secure Project' nor 'secure-commit', a
\* call of installHooks without force or of uninstallHooks, and a command
\* install, uninstall or init without --force, leaves the hook file with its
\* content, and installHooks and uninstallHooks throw instead of returning
C20_ForeignHookIsPreserved ==
    [][(ForeignHookExists /\ lastCall' \in CallsWithoutForce)
          => /\ preCommit' = preCommit
             /\ lastCall' \in {"installHooks", "uninstallHooks"} => hooksResult'.kind = "threw"]_vars

\* installHooks without force has thrown on the hook of a user, and the
\* hook is as the user wrote it
C20_Witness ==
    /\ gitDir
    /\ preCommit = HookFile(ForeignHook, "755")
    /\ lastCall = "installHooks"
    /\ hooksResult.kind = "threw"

\* the files of the entries of results.removed, skipped or failed
FilesOf(entries) == [k \in 1..Len(entries) |-> entries[k].file]

\* the step is a removeTrackedSensitiveFiles call, made by the session or by
\* the clean command
IsCleanStep == cleanResult'.outcome # "none"

\* C21: a dry run changes nothing: removeTrackedSensitiveFiles with dryRun
\* runs no `git rm --cached`, leaves the tracked files as they are, and its
\* `removed` lists, each with status 'would remove', the files that the call
\* without dryRun and with the same force would run `git rm --cached` on
C21_DryRunChangesNothing ==
    [][(IsCleanStep /\ cleanCall'.dryRun)
          => /\ cleanResult'.rmCalls = <<>>
             /\ index' = index
             /\ FilesOf(cleanResult'.removed)
                   = removeTrackedSensitiveFiles(FALSE, cleanCall'.force, cleanCall'.statusOk,
                                                 NoFault).rmCalls
             /\ \A k \in 1..Len(cleanResult'.removed) :
                   cleanResult'.removed[k].status = <<"w","o","u","l","d"," ","r","e","m","o","v","e">>]_vars

\* a dry run has listed a file to remove and has skipped another
C21_Witness ==
    /\ cleanCall.dryRun
    /\ cleanResult.outcome = "returned"
    /\ Len(cleanResult.removed) > 0
    /\ Len(cleanResult.skipped) > 0

\* a sensitive-file pattern read as a glob: the star stands for any run of
\* characters and the rest of the pattern is literal, from the first to the
\* last character of the name
GlobMatches(pattern, fileName) ==
    IF \E i \in 1..Len(pattern) : pattern[i] = "*"
    THEN LET star == CHOOSE i \in 1..Len(pattern) : pattern[i] = "*"
             before == SubSeq(pattern, 1, star - 1)
             after == SubSeq(pattern, star + 1, Len(pattern))
         IN  /\ Len(fileName) >= Len(before) + Len(after)
             /\ StartsWith(fileName, before)
             /\ EndsWith(fileName, after)
    ELSE fileName = pattern

\* the name matches a sensitive-file pattern read as a glob
IsSensitiveGlob(fileName) ==
    \E k \in 1..Len(sensitiveFiles) : GlobMatches(sensitiveFiles[k], fileName)

\* the tracked files whose basename matches a sensitive-file pattern read as
\* a glob, in the order of `git ls-files`
TrackedGlobMatches ==
    SelectSeq(GitLsFiles, LAMBDA file : IsSensitiveGlob(file[Len(file)]))

\* the file of the index differs from its HEAD entry, or from the working
\* tree
HasUncommittedChanges(p) ==
    \/ index[p] # head[p]
    \/ ~(fsys[p].type = "file" /\ Blob(fsys[p].content) = index[p])

C23_CleanRemovesTrackedSensitiveFiles ==
    [][/\ isGitRepository => findTrackedSensitiveFiles = TrackedGlobMatches
       /\ (/\ IsCleanStep
           /\ cleanResult'.outcome = "returned"
           /\ ~cleanCall'.dryRun
           /\ cleanResult'.failed = <<>>)
             => \A k \in 1..Len(TrackedGlobMatches) :
                    ~HasUncommittedChanges(TrackedGlobMatches[k])
                        => \E n \in 1..Len(cleanResult'.removed) :
                               cleanResult'.removed[n].file = TrackedGlobMatches[k]]_vars


\* the number of entries of a sequence that are the file
Occurrences(files, file) == Cardinality({n \in 1..Len(files) : files[n] = file})

\* C28: a removeTrackedSensitiveFiles call without dryRun that returns has
\* each file of findTrackedSensitiveFiles in exactly one of `removed`,
\* `skipped` and `failed` and no other file in them, has `success` false
\* exactly when `failed` is not empty, and has run `git rm --cached` on every
\* file it did not skip, whether or not an earlier one failed
C28_EveryFileIsAccountedFor ==
    [][(IsCleanStep /\ cleanResult'.outcome = "returned" /\ ~cleanCall'.dryRun)
          => LET listed == FilesOf(cleanResult'.removed) \o FilesOf(cleanResult'.skipped)
                              \o FilesOf(cleanResult'.failed)
                 isSkipped(file) == Occurrences(FilesOf(cleanResult'.skipped), file) > 0
             IN  /\ \A k \in 1..Len(findTrackedSensitiveFiles) :
                        Occurrences(listed, findTrackedSensitiveFiles[k]) = 1
                 /\ \A n \in 1..Len(listed) :
                        Occurrences(findTrackedSensitiveFiles, listed[n]) = 1
                 /\ (~cleanResult'.success) <=> (cleanResult'.failed # <<>>)
                 /\ cleanResult'.rmCalls
                        = SelectSeq(findTrackedSensitiveFiles, LAMBDA file : ~isSkipped(file))]_vars

\* a call without dryRun has returned after `git rm --cached` failed for the
\* first file and removed the second one, and another file was skipped
C28_Witness ==
    /\ cleanResult.outcome = "returned"
    /\ ~cleanCall.dryRun
    /\ ~cleanResult.success
    /\ Len(cleanResult.rmCalls) = 2
    /\ Len(cleanResult.failed) = 1
    /\ cleanResult.failed[1].file = cleanResult.rmCalls[1]
    /\ Len(cleanResult.removed) = 1
    /\ cleanResult.removed[1].file = cleanResult.rmCalls[2]


\* the paths of the statSync calls of the last scanDirectory, in order: the
\* entries in the order the traversal got to them
StatOrder ==
    LET stats == SelectSeq(fsTrace, LAMBDA e : e.op = "statSync")
    IN  [k \in 1..Len(stats) |-> stats[k].path]

\* the position of a name in the listing of a directory
ListingPos(dir, name) ==
    CHOOSE k \in 1..Len(ReaddirSync(dir)) : ReaddirSync(dir)[k] = name

\* the directory a path is an entry of
ParentOf(p) == SubSeq(p, 1, Len(p) - 1)

RECURSIVE FindingsOfReads(_)
\* the findings of the files of the readFileSync calls of the last
\* scanDirectory, from call k of the trace on
FindingsOfReads(k) ==
    IF k > Len(fsTrace) THEN <<>>
    ELSE (IF fsTrace[k].op = "readFileSync" THEN scanFileForSecrets(fsTrace[k].path) ELSE <<>>)
            \o FindingsOfReads(k + 1)

\* C25: scanDirectory returns, having gone through the tree depth first in
\* the order of the directory listings: the entries of a directory come in
\* listing order, the entries below a directory come right after it and before
\* its next sibling; every regular file it gets to that shouldScanFile
\* accepts is read exactly once, also when the read fails, no other file is
\* read, and the result is the findings of the files in the order they were
\* read
C25_DepthFirstEachFileOnce ==
    pc = "scanned" =>
        /\ scanOutcome = "returned"
        /\ \A i \in 1..Len(StatOrder) : \A j \in (i + 1)..Len(StatOrder) :
              /\ StatOrder[i] # StatOrder[j]
              /\ ~IsBelow(StatOrder[j], StatOrder[i])
              /\ ParentOf(StatOrder[i]) = ParentOf(StatOrder[j])
                    => ListingPos(ParentOf(StatOrder[i]), StatOrder[i][Len(StatOrder[i])])
                          < ListingPos(ParentOf(StatOrder[j]), StatOrder[j][Len(StatOrder[j])])
              /\ IsBelow(StatOrder[i], StatOrder[j])
                    => \A m \in (i + 1)..j : IsBelow(StatOrder[i], StatOrder[m])
        /\ \A p \in PathSet :
              Len(CallsOn("readFileSync", p))
                  = IF Reached(p) /\ fsys[p].type = "file" /\ shouldScanFile(p) THEN 1 ELSE 0
        /\ findings = FindingsOfReads(1)

\* a scan from the root that read a file of lib with secrets and then, once,
\* a file of the root that cannot be read, and read nothing of secret.bin
C25_Witness ==
    /\ pc = "scanned"
    /\ scanRoot = <<>>
    /\ fsys[<<NameLib, NameAppJs>>] = FileNode(ContentMixed, TRUE)
    /\ fsys[<<NameSecretBin>>] = FileNode(LineAwsFixture, TRUE)
    /\ fsys[<<NameSecretEnv>>] = FileNode(LineAwsFixture, FALSE)
    /\ Len(CallsOn("readFileSync", <<NameLib, NameAppJs>>)) = 1
    /\ Len(CallsOn("readFileSync", <<NameSecretEnv>>)) = 1
    /\ ~CallsOn("readFileSync", <<NameSecretEnv>>)[1].ok
    /\ Len(findings) > 1


\* the hook file as installHooks writes it
InstalledHook == HookFile(HookTemplate, "755")

\* the step is a call of installHooks or of uninstallHooks
IsHooksCall == lastCall' \in {"installHooks", "installHooks{force}", "uninstallHooks"}

\* C27: hook installation is idempotent and reversible.  In a git repository
\* without a pre-commit hook installHooks returns and checkHookInstallation
\* then reports installed; with the hook it wrote in place, installHooks
\* without force returns 'Hook already installed' and leaves the file as it
\* is, and uninstallHooks removes the file, after which checkHookInstallation
\* reports not installed; uninstallHooks without a hook returns and changes
\* nothing.  Outside a git repository both throw and neither creates nor
\* removes anything.
C27_InstallIsIdempotentAndReversible ==
    [][IsHooksCall =>
          /\ (gitDir /\ ~preCommit.exists /\ lastCall' # "uninstallHooks")
                => /\ hooksResult'.kind = "returned"
                   /\ preCommit' = InstalledHook
                   /\ checkHookInstallation'.installed
          /\ (gitDir /\ preCommit = InstalledHook /\ lastCall' = "installHooks")
                => /\ checkHookInstallation.installed
                   /\ hooksResult' = Returned(<<"H","o","o","k"," ","a","l","r","e","a","d","y"," ","i","n","s","t","a","l","l","e","d">>)
                   /\ preCommit' = preCommit
          /\ (gitDir /\ preCommit = InstalledHook /\ lastCall' = "uninstallHooks")
                => /\ hooksResult'.kind = "returned"
                   /\ preCommit' = NoHook
                   /\ ~checkHookInstallation'.installed
          /\ (gitDir /\ ~preCommit.exists /\ lastCall' = "uninstallHooks")
                => /\ hooksResult'.kind = "returned"
                   /\ UNCHANGED <<gitDir, hooksDir, preCommit>>
          /\ ~gitDir
                => /\ hooksResult'.kind = "threw"
                   /\ UNCHANGED <<gitDir, hooksDir, preCommit>>]_vars

\* uninstallHooks has removed a hook of the tool and has returned
C27_Witness ==
    /\ gitDir
    /\ lastCall = "uninstallHooks"
    /\ hooksResult = Returned(<<"H","o","o","k"," ","r","e","m","o","v","e","d"," ","s","u","c","c","e","s","s","f","u","l","l","y">>)
    /\ preCommit = NoHook


\* the lines of .gitignore, without the line terminators
LinesOfFile(file) ==
    IF file.exists THEN SplitLines(DropFinalNewline(file.content)) ELSE <<>>

\* the step is an updateGitignore call that returned
UpdateReturned ==
    ignoreResult'.op = "updateGitignore" /\ ignoreResult'.outcome = "returned"

\* an entry of the project root: a name, and whether it is a directory
Entry(name, dir) == [name |-> name, dir |-> dir]

\* git's reading of a line of .gitignore without a slash before its end: a
\* blank line, a comment and a negation ignore nothing, a line that ends
\* with a slash ignores the directories whose name matches the rest as a
\* glob, another line the files and directories whose name matches it
IgnoredBy(line, entry) ==
    /\ line # <<>>
    /\ line[1] \notin {"#", "!"}
    /\ GlobMatches(DirOf(line), entry.name)
    /\ EndsWith(line, <<"/">>) => entry.dir

\* entries a pattern of the templates ignores: its star replaced by nothing
\* and by a name part
SampleEntries(pattern) ==
    LET glob == DirOf(pattern)
        names == IF \E i \in 1..Len(glob) : glob[i] = "*"
                 THEN LET star == CHOOSE i \in 1..Len(glob) : glob[i] = "*" IN
                      { SubSeq(glob, 1, star - 1) \o part \o SubSeq(glob, star + 1, Len(glob)) :
                          part \in {<<>>, <<"x">>, <<".", "l", "o", "c", "a", "l">>} }
                 ELSE {glob}
    IN  {Entry(name, dir) : name \in names,
                            dir \in IF EndsWith(pattern, <<"/">>) THEN {TRUE} ELSE BOOLEAN}

\* a line ignores at least what the pattern ignores
Covers(line, pattern) == \A entry \in SampleEntries(pattern) : IgnoredBy(line, entry)

\* the security patterns and the template patterns of the frameworks
RequestedPatterns(frameworks) ==
    {securityPatterns[k] : k \in 1..Len(securityPatterns)}
    \cup UNION {{TemplateOf(frameworks[i])[k] : k \in 1..Len(TemplateOf(frameworks[i]))} :
                   i \in 1..Len(frameworks)}

\* a line of the file covers the pattern
CoveredIn(file, pattern) ==
    \E n \in 1..Len(LinesOfFile(file)) : Covers(LinesOfFile(file)[n], pattern)

\* C24: after updateGitignore has returned, each of '.env*', '*.log',
\* '.DS_Store' and each template pattern of the frameworks is a line of the
\* file or is covered by a line the file had, one that ignores at least the
\* same files; and a pattern is in `skipped` only where such a line exists
C24_SecurityPatternsAreEnsured ==
    [][UpdateReturned =>
          /\ \A pattern \in RequestedPatterns(ignoreResult'.frameworks) :
                \/ \E n \in 1..Len(LinesOfFile(dotGitignore')) :
                      LinesOfFile(dotGitignore')[n] = pattern
                \/ CoveredIn(dotGitignore, pattern)
          /\ \A k \in 1..Len(ignoreResult'.skipped) :
                CoveredIn(dotGitignore, ignoreResult'.skipped[k])]_vars


\* the step is an updateGitignore call
IsUpdateStep == ignoreResult'.op = "updateGitignore"

\* .gitignore as the call leaves it when no fs call fails
NewGitignore ==
    LET trace == UpdateGitignoreCall(ignoreResult'.frameworks, dotGitignore, gitignoreTmp,
                                     NoSaveFault).trace
    IN  IF trace = <<>> THEN dotGitignore ELSE trace[Len(trace)].gitignore

\* the fs calls of the step's save that failed
FailedSaveCalls == SelectSeq(ignoreResult'.trace, LAMBDA call : ~call.ok)

\* what C26 says of a save whatever the cleanup does, `new` being the file
\* without a failure: the content goes to
\* .gitignore.tmp first and is then renamed over .gitignore, after every fs
\* call .gitignore holds the whole old or the whole new content, a save whose
\* write or rename failed leaves .gitignore as it was and throws 'Failed to
\* write .gitignore', and an update with nothing to add makes no fs call
SaveProtocol(new) ==
    /\ \A n \in 1..Len(ignoreResult'.trace) :
          ignoreResult'.trace[n].gitignore \in {dotGitignore, new}
    /\ ignoreResult'.trace # <<>> =>
          /\ ignoreResult'.trace[1].op = "writeFileSync"
          /\ ignoreResult'.trace[1].gitignore = dotGitignore
          /\ ignoreResult'.trace[1].ok => ignoreResult'.trace[1].tmp = new
    /\ (ignoreResult'.trace # <<>> /\ FailedSaveCalls = <<>>) =>
          /\ ignoreResult'.outcome = "returned"
          /\ [n \in 1..Len(ignoreResult'.trace) |-> ignoreResult'.trace[n].op]
                = <<"writeFileSync", "renameSync">>
          /\ dotGitignore' = new
          /\ dotGitignore' # dotGitignore
          /\ ~gitignoreTmp'.exists
    /\ FailedSaveCalls # <<>> =>
          /\ dotGitignore' = dotGitignore
          /\ ignoreResult'.outcome = "threw"
          /\ Includes(ignoreResult'.message, <<"F","a","i","l","e","d"," ","t","o"," ","w","r","i","t","e"," ",".","g","i","t","i","g","n","o","r","e">>)
    /\ ignoreResult'.added = <<>> =>
          /\ ignoreResult'.trace = <<>>
          /\ dotGitignore' = dotGitignore
          /\ gitignoreTmp' = gitignoreTmp

FollowsCall(op) ==
    /\ ignoreResult.op = op
    /\ ignoreResult.outcome = "returned"
    /\ ignoreResult.frameworks = ignoreResult'.frameworks

\* C29: updateGitignore is idempotent and agrees with its preview:
\* previewGitignoreChanges writes nothing, and the updateGitignore that
\* follows it adds what it listed in toAdd; an updateGitignore that follows
\* an updateGitignore with the same frameworks returns updated = false and
\* an empty `added` and leaves the file as it is, byte for byte; and
\* validateGitignore after the update returns valid = true
C29_UpdateIsIdempotent ==
    [][/\ ignoreResult'.op = "previewGitignoreChanges"
             => dotGitignore' = dotGitignore /\ gitignoreTmp' = gitignoreTmp
       /\ (UpdateReturned /\ FollowsCall("previewGitignoreChanges"))
             => ignoreResult'.added = ignoreResult.added
       /\ (IsUpdateStep /\ FollowsCall("updateGitignore"))
             => /\ ignoreResult'.outcome = "returned"
                /\ ~ignoreResult'.updated
                /\ ignoreResult'.added = <<>>
                /\ dotGitignore' = dotGitignore
                /\ gitignoreTmp' = gitignoreTmp
       /\ (ignoreResult'.op = "validateGitignore" /\ FollowsCall("updateGitignore"))
             => ignoreResult'.valid]_vars

\* updateGitignore for php and node has found nothing to add in a file that
\* has the section an earlier call for php and node wrote under a user's
\* lines
C29_Witness ==
    /\ ignoreResult.op = "updateGitignore"
    /\ ignoreResult.outcome = "returned"
    /\ ignoreResult.frameworks = <<<<"p","h","p">>, <<"n","o","d","e">>>>
    /\ ~ignoreResult.updated
    /\ ignoreResult.added = <<>>
    /\ ignoreResult.skipped # <<>>
    /\ dotGitignore.exists
    /\ dotGitignore.content[1] = "#"
    /\ Includes(dotGitignore.content, <<"\n","#"," ">> \o SectionTitle(ignoreResult.frameworks) \o <<"\n">>)


\* what C30 says of the lines of the file before and after an update
AppendsOnly(old, new) ==
    LET rest == SelectSeq(SubSeq(new, Len(old) + 1, Len(new)), LAMBDA line : Trim(line) # <<>>)
    IN  /\ Len(new) >= Len(old)
        /\ SubSeq(new, 1, Len(old)) = old
        /\ IF ignoreResult'.added = <<>> THEN new = old
           ELSE /\ Len(rest) = 1 + Len(ignoreResult'.added)
                /\ rest[1] = <<"#", " ">> \o SectionTitle(ignoreResult'.frameworks)
                /\ SubSeq(rest, 2, Len(rest)) = ignoreResult'.added
        /\ \A k \in 1..Len(ignoreResult'.added) :
              \A n \in 1..Len(old) : old[n] # ignoreResult'.added[k]

=============================================================================
